---- MODULE Spec2Model ----
(***************************************************************************)
(* State-machine model of the simulacrum protocols:                        *)
(*   simulacrum/economy/negotiation.py   NegotiationProtocol               *)
(*   simulacrum/protocols/jury.py        JuryProtocol                      *)
(*   simulacrum/protocols/voting.py      VotingProtocol                    *)
(*   simulacrum/protocols/base.py        Protocol, ProtocolState           *)
(*   simulacrum/core/llm.py              LLMEngine.generate (its retries)  *)
(*                                                                         *)
(* One protocol object exists in a behaviour; the variables of the other   *)
(* two protocols are marked absent and never change.                       *)
(*                                                                         *)
(* Numbers.  Prices are Python floats.  They are modelled as fixed-point   *)
(* numbers: an integer p stands for the price p / Scale.  Every float      *)
(* product is rounded to the nearest point of the grid of even integers,   *)
(* so that the midpoint (ask + bid) / 2 of two prices is again an integer. *)
(* Trait values (floats in [0, 1]) are integers in hundredths.             *)
(***************************************************************************)
EXTENDS Integers, Sequences, FiniteSets, TLC

VARIABLES
    neg,      \* a NegotiationProtocol and its execute call
    jury,     \* a JuryProtocol and its execute call
    voting,   \* a VotingProtocol and its execute call
    state,    \* self.state of the protocol object: its ProtocolState
    first     \* the first run of a protocol object that is run twice: its
              \* inputs, the participants' answers and its outcome

vars == <<neg, jury, voting, state, first>>

\* ------------------------------------------------------------------------
\* Bounds of the model
\* ------------------------------------------------------------------------

\* max_rounds of a NegotiationProtocol ranges over 0..NegMaxRounds
NegMaxRounds == 2

\* max_rounds of a JuryProtocol ranges over 0..JuryMaxRounds
JuryMaxRounds == 2

\* a vote is held among 1..MaxVoters agents
MaxVoters == 5

\* log_message, log_response and execute are called from outside while the
\* log they add to holds fewer than MaxLog entries
MaxLog == 2

\* ------------------------------------------------------------------------
\* Numbers
\* ------------------------------------------------------------------------

\* fixed-point resolution of a float price: p stands for p / Scale
Scale == 100

Abs(x) == IF x < 0 THEN 0 - x ELSE x

Max2(a, b) == IF a >= b THEN a ELSE b

Min2(a, b) == IF a <= b THEN a ELSE b

\* the integer nearest to n / d, for d > 0
RoundDiv(n, d) == (2 * n + d) \div (2 * d)

\* the float product x * (num / den), on the grid of even integers
Mul(x, num, den) == 2 * RoundDiv(x * num, 2 * den)

\* Optional[float]: None, or a value
None == <<>>

Some(x) == <<x>>

\* ------------------------------------------------------------------------
\* Inputs
\* ------------------------------------------------------------------------

\* trait values in hundredths: below, between and above the thresholds
\* 0.6 and 0.7 the protocols compare them with
TraitVals == {50, 65, 80}

\* the traits NegotiationProtocol reads
Traits == [openness : TraitVals, conscientiousness : TraitVals,
           agreeableness : TraitVals, neuroticism : TraitVals]

\* seller_reserve and buyer_max, in whole currency units
Prices == {10, 20, 100}

\* ------------------------------------------------------------------------
\* Protocol and ProtocolState (base.py)
\* ------------------------------------------------------------------------

\* ProtocolState(): the state of a protocol as constructed.  Its metadata is
\* never written and is left out.
ProtocolState ==
    [round_number |-> 0,
     messages |-> <<>>,
     responses |-> <<>>,
     is_complete |-> FALSE,
     result |-> None]

\* timestamps are left out
ProtocolMessage(sender_id, content, message_type) ==
    [sender_id |-> sender_id, content |-> content, message_type |-> message_type]

AgentResponse(agent_id, response, vote) ==
    [agent_id |-> agent_id, response |-> response, vote |-> vote]

\* log_message putting the new entry in front of the log
log_message_NewestFirst(s, sender_id, content, message_type) ==
    [s EXCEPT !.messages = <<ProtocolMessage(sender_id, content, message_type)>> \o @]

\* log_message(sender_id, content, message_type): the state s after it
log_message(s, sender_id, content, message_type) ==
    [s EXCEPT !.messages = Append(@, ProtocolMessage(sender_id, content, message_type))]

\* log_response keeping the newest entry only
log_response_KeepsLast(s, agent_id, response, vote) ==
    [s EXCEPT !.responses = <<AgentResponse(agent_id, response, vote)>>]

\* log_response(agent_id, response, vote=vote): the state s after it
log_response(s, agent_id, response, vote) ==
    [s EXCEPT !.responses = Append(@, AgentResponse(agent_id, response, vote))]

\* mutant of reset: the logs are emptied, the flag and the result are kept
reset_LogsOnly ==
    state' = [state EXCEPT !.messages = <<>>, !.responses = <<>>]

\* reset(): self.state = ProtocolState()
reset ==
    state' = ProtocolState

\* ------------------------------------------------------------------------
\* LLMEngine.generate (core/llm.py), called by agent.think
\* ------------------------------------------------------------------------

\* @retry(stop=stop_after_attempt(3), ...)
stop_after_attempt == 3

\* the outcomes of the attempts of litellm.completion that one call of
\* generate may make
Attempts == [1..stop_after_attempt -> {"returns", "raises"}]

\* generate with its retries: the response of the first attempt that
\* returns, or tenacity's RetryError when every attempt raised
generate(attempts) ==
    IF \E k \in 1..stop_after_attempt : attempts[k] = "returns"
    THEN "response"
    ELSE "RetryError"

\* what the message of an exception names.  RetryError holds the last
\* attempt of generate; the ValueErrors of execute hold the number of agents
\* at most.  Neither think nor the protocols catch an exception or add to it.
Names(error) == [participant |-> 0, phase |-> "none"]

\* no run is repeated
NoFirst == [step |-> "none"]

\* ------------------------------------------------------------------------
\* NegotiationProtocol
\* ------------------------------------------------------------------------

\* __init__ defaults
min_price_movement == 1 * Scale

convergence_threshold == 5 * Scale

Offer(round, role, price) == [round |-> round, role |-> role, price |-> price]

\* mutant of _get_initial_ask: neuroticism is tested before openness
_get_initial_ask_NeuroticismFirst(seller, reserve_price) ==
    LET markup_factor == IF seller.neuroticism > 70 THEN 12
                         ELSE IF seller.openness > 70 THEN 18
                         ELSE 15
    IN  Mul(reserve_price, markup_factor, 10)

_get_initial_ask(seller, reserve_price) ==
    LET markup_factor == IF seller.openness > 70 THEN 18
                         ELSE IF seller.neuroticism > 70 THEN 12
                         ELSE 15
    IN  Mul(reserve_price, markup_factor, 10)

_get_initial_bid(buyer, max_price) ==
    LET bid_factor == IF buyer.agreeableness > 70 THEN 75
                      ELSE IF buyer.conscientiousness > 70 THEN 65
                      ELSE 60
    IN  Mul(max_price, bid_factor, 100)

\* mutant of _seller_counter: the minimum movement is not clamped
_seller_counter_MoveUnclamped(seller, current_ask, buyer_bid, reserve, round_num, max_rounds) ==
    LET gap == current_ask - buyer_bid
        rate == IF seller.agreeableness > 60 THEN 40
                ELSE IF seller.conscientiousness > 60 THEN 30
                ELSE 20
        new_ask == Max2(current_ask - Mul(gap, rate * (max_rounds + round_num),
                                          100 * max_rounds), reserve)
    IN  IF Abs(new_ask - current_ask) < min_price_movement
        THEN current_ask - min_price_movement
        ELSE new_ask

_seller_counter(seller, current_ask, buyer_bid, reserve, round_num, max_rounds) ==
    LET gap == current_ask - buyer_bid
        rate == IF seller.agreeableness > 60 THEN 40
                ELSE IF seller.conscientiousness > 60 THEN 30
                ELSE 20
        \* concession_rate * (1 + round_num / max_rounds), as a fraction
        new_ask == Max2(current_ask - Mul(gap, rate * (max_rounds + round_num),
                                          100 * max_rounds), reserve)
    IN  IF Abs(new_ask - current_ask) < min_price_movement
        THEN Max2(current_ask - min_price_movement, reserve)
        ELSE new_ask

_buyer_counter(buyer, current_bid, seller_ask, max_price, round_num, max_rounds) ==
    LET gap == seller_ask - current_bid
        rate == IF buyer.agreeableness > 60 THEN 40
                ELSE IF buyer.openness > 60 THEN 35
                ELSE 25
        new_bid == Min2(current_bid + Mul(gap, rate * (max_rounds + round_num),
                                          100 * max_rounds), max_price)
    IN  IF Abs(new_bid - current_bid) < min_price_movement
        THEN Min2(current_bid + min_price_movement, max_price)
        ELSE new_bid

\* mutant of NoDeal: the two prices taken the wrong way round
NoDeal_Swapped(seller_reserve, buyer_max) == buyer_max > seller_reserve

\* execute's check that a deal is possible: seller_reserve > buyer_max
NoDeal(seller_reserve, buyer_max) == seller_reserve > buyer_max

\* mutant of Converged: a gap of exactly the threshold is no deal
Converged_Strict(ask, bid) == Abs(ask - bid) < convergence_threshold

\* the convergence test of execute
Converged(ask, bid) == Abs(ask - bid) <= convergence_threshold

\* mutant of LoopGoesOn: one round too many
LoopGoesOn_OneMore(round_num, max_rounds) == round_num <= max_rounds

\* for round_num in range(1, max_rounds + 1): whether a round follows round_num
LoopGoesOn(round_num, max_rounds) == round_num < max_rounds

\* len([o for o in offers if o.round > 0])
CounterOffers(offers) == Cardinality({i \in 1..Len(offers) : offers[i].round > 0})

\* the round of the last offer taken for the rounds
_create_success_result_LastRound(final_price, initial_ask, initial_bid, offers) ==
    [outcome |-> "success",
     final_price |-> Some(final_price),
     rounds_taken |-> offers[Len(offers)].round,
     offers |-> offers,
     initial_ask |-> initial_ask,
     initial_bid |-> initial_bid,
     savings |-> Some(initial_ask - final_price),
     premium |-> Some(final_price - initial_bid)]

_create_success_result(final_price, initial_ask, initial_bid, offers) ==
    [outcome |-> "success",
     final_price |-> Some(final_price),
     rounds_taken |-> CounterOffers(offers) \div 2,
     offers |-> offers,
     initial_ask |-> initial_ask,
     initial_bid |-> initial_bid,
     savings |-> Some(initial_ask - final_price),
     premium |-> Some(final_price - initial_bid)]

\* a NegotiationResult with outcome failure or timeout
NegotiationResult(outcome, rounds_taken, offers, initial_ask, initial_bid) ==
    [outcome |-> outcome,
     final_price |-> None,
     rounds_taken |-> rounds_taken,
     offers |-> offers,
     initial_ask |-> initial_ask,
     initial_bid |-> initial_bid,
     savings |-> None,
     premium |-> None]

NoResult == [outcome |-> "none"]

\* the state of a protocol object that is not inside execute
NegIdle(max_rounds) ==
    [pc |-> "idle", max_rounds |-> max_rounds, result |-> NoResult,
     n |-> 0]                \* len(agents)

\* the state of an execute call that goes on: the locals of execute
NegRunning(n, pc, seller, buyer, seller_reserve, buyer_max, initial_ask, initial_bid, current_ask, current_bid, round_num, offers, calls) ==
    [pc |-> pc, max_rounds |-> neg.max_rounds, result |-> NoResult, n |-> n,
     seller |-> seller, buyer |-> buyer,
     seller_reserve |-> seller_reserve, buyer_max |-> buyer_max,
     initial_ask |-> initial_ask, initial_bid |-> initial_bid,
     current_ask |-> current_ask, current_bid |-> current_bid,
     round_num |-> round_num, offers |-> offers, calls |-> calls]

\* the state when execute has returned result; calls counts the offers computed
NegDone(n, result, seller_reserve, buyer_max, calls) ==
    [pc |-> "done", max_rounds |-> neg.max_rounds, result |-> result, n |-> n,
     seller_reserve |-> seller_reserve, buyer_max |-> buyer_max, calls |-> calls]

\* no NegotiationProtocol was constructed
NegAbsent == [NegIdle(0) EXCEPT !.pc = "absent"]

\* validate_participation(agents), of len(agents)
Neg_validate_participation(n) == n = 2

\* a protocol object as constructed: NegotiationProtocol(max_rounds)
NegInit == neg \in {NegIdle(m) : m \in 0..NegMaxRounds}

\* execute recording the buyer's initial bid before the seller's ask
Neg_execute_BuyerOpens(n, seller, buyer, reserve, max) ==
    /\ neg.pc \in {"idle", "done"}
    /\ IF NoDeal(reserve, max)
       THEN neg' = NegDone(n, NegotiationResult("failure", 0, <<>>, reserve, max),
                           reserve, max, 0)
       ELSE LET initial_ask == _get_initial_ask(seller, reserve)
                initial_bid == _get_initial_bid(buyer, max)
                offers == <<Offer(0, "buyer", initial_bid),
                            Offer(0, "seller", initial_ask)>>
            IN  IF Converged(initial_ask, initial_bid)
                THEN neg' = NegDone(n, _create_success_result(
                                        (initial_ask + initial_bid) \div 2,
                                        initial_ask, initial_bid, offers),
                                    reserve, max, 2)
                ELSE IF ~LoopGoesOn(0, neg.max_rounds)
                THEN neg' = NegDone(n, NegotiationResult("timeout", neg.max_rounds,
                                        offers, initial_ask, initial_bid),
                                    reserve, max, 2)
                ELSE neg' = NegRunning(n, "seller", seller, buyer, reserve, max,
                                       initial_ask, initial_bid,
                                       initial_ask, initial_bid, 1, offers, 2)

\* execute, up to the check of the initial positions
Neg_execute(n, seller, buyer, reserve, max) ==
    /\ neg.pc \in {"idle", "done"}
    /\ IF NoDeal(reserve, max)
       THEN neg' = NegDone(n, NegotiationResult("failure", 0, <<>>, reserve, max),
                           reserve, max, 0)
       ELSE LET initial_ask == _get_initial_ask(seller, reserve)
                initial_bid == _get_initial_bid(buyer, max)
                offers == <<Offer(0, "seller", initial_ask),
                            Offer(0, "buyer", initial_bid)>>
            IN  IF Converged(initial_ask, initial_bid)
                THEN neg' = NegDone(n, _create_success_result(
                                        (initial_ask + initial_bid) \div 2,
                                        initial_ask, initial_bid, offers),
                                    reserve, max, 2)
                ELSE IF ~LoopGoesOn(0, neg.max_rounds)
                THEN neg' = NegDone(n, NegotiationResult("timeout", neg.max_rounds,
                                        offers, initial_ask, initial_bid),
                                    reserve, max, 2)
                ELSE neg' = NegRunning(n, "seller", seller, buyer, reserve, max,
                                       initial_ask, initial_bid,
                                       initial_ask, initial_bid, 1, offers, 2)

\* the numbers of agents execute is called with: two are accepted
NegAgentCounts == {1, 2, 3}

\* execute(agents, context) called with n agents, the first the seller, and
\* the context's prices; ValueError unless n = 2
NegExecute ==
    /\ neg.pc = "idle"
    /\ \E n \in NegAgentCounts :
          IF ~Neg_validate_participation(n)
          THEN neg' = [neg EXCEPT !.pc = "error", !.n = n]
          ELSE \E seller \in Traits, buyer \in Traits,
                  reserve \in Prices, max \in Prices :
                  Neg_execute(n, seller, buyer, reserve * Scale, max * Scale)
    /\ UNCHANGED <<jury, voting, state, first>>

\* one iteration of the loop, first half: the seller's counter-offer
NegSellerTurn ==
    /\ neg.pc = "seller"
    /\ UNCHANGED <<jury, voting, state, first>>
    /\ LET current_ask == _seller_counter(neg.seller, neg.current_ask, neg.current_bid,
                                          neg.seller_reserve, neg.round_num,
                                          neg.max_rounds)
           offers == Append(neg.offers, Offer(neg.round_num, "seller", current_ask))
       IN  IF Converged(current_ask, neg.current_bid)
           THEN neg' = NegDone(neg.n, _create_success_result(
                                   (current_ask + neg.current_bid) \div 2,
                                   neg.initial_ask, neg.initial_bid, offers),
                               neg.seller_reserve, neg.buyer_max, neg.calls + 1)
           ELSE neg' = [neg EXCEPT !.pc = "buyer", !.current_ask = current_ask,
                                   !.offers = offers, !.calls = @ + 1]

\* second half: the buyer's counter-offer, and the end of the loop
NegBuyerTurn ==
    /\ neg.pc = "buyer"
    /\ UNCHANGED <<jury, voting, state, first>>
    /\ LET current_bid == _buyer_counter(neg.buyer, neg.current_bid, neg.current_ask,
                                         neg.buyer_max, neg.round_num, neg.max_rounds)
           offers == Append(neg.offers, Offer(neg.round_num, "buyer", current_bid))
       IN  IF Converged(neg.current_ask, current_bid)
           THEN neg' = NegDone(neg.n, _create_success_result(
                                   (neg.current_ask + current_bid) \div 2,
                                   neg.initial_ask, neg.initial_bid, offers),
                               neg.seller_reserve, neg.buyer_max, neg.calls + 1)
           ELSE IF LoopGoesOn(neg.round_num, neg.max_rounds)
           THEN neg' = [neg EXCEPT !.pc = "seller", !.current_bid = current_bid,
                                   !.round_num = @ + 1,
                                   !.offers = offers, !.calls = @ + 1]
           ELSE neg' = NegDone(neg.n, NegotiationResult("timeout", neg.max_rounds, offers,
                                                 neg.initial_ask, neg.initial_bid),
                               neg.seller_reserve, neg.buyer_max, neg.calls + 1)

\* ------------------------------------------------------------------------
\* Counter / dict of votes: the options in the order of their first vote,
\* each with its count
\* ------------------------------------------------------------------------

EmptyCounter == <<>>

Keys(c) == {c[i].option : i \in 1..Len(c)}

\* mutant of CounterAdd: votes[v] = 1
CounterAdd_SetsOne(c, v) ==
    IF v \in Keys(c)
    THEN [i \in 1..Len(c) |->
             IF c[i].option = v THEN [c[i] EXCEPT !.count = 1] ELSE c[i]]
    ELSE Append(c, [option |-> v, count |-> 1])

\* mutant of CounterAdd: a vote for an option already voted for counts twice
CounterAdd_CountsTwice(c, v) ==
    IF v \in Keys(c)
    THEN [i \in 1..Len(c) |->
             IF c[i].option = v THEN [c[i] EXCEPT !.count = @ + 2] ELSE c[i]]
    ELSE Append(c, [option |-> v, count |-> 1])

\* votes[v] += 1
CounterAdd(c, v) ==
    IF v \in Keys(c)
    THEN [i \in 1..Len(c) |->
             IF c[i].option = v THEN [c[i] EXCEPT !.count = @ + 1] ELSE c[i]]
    ELSE Append(c, [option |-> v, count |-> 1])

\* sum(votes.values())
RECURSIVE SumCounts(_)

SumCounts(c) == IF c = <<>> THEN 0 ELSE c[1].count + SumCounts(Tail(c))

\* votes.get(v, 0)
CountOf(c, v) ==
    IF v \in Keys(c)
    THEN (CHOOSE e \in {c[i] : i \in 1..Len(c)} : e.option = v).count
    ELSE 0

\* max(votes.values()), of a counter that is not empty
MaxCount(c) ==
    CHOOSE m \in {c[i].count : i \in 1..Len(c)} :
        \A i \in 1..Len(c) : c[i].count <= m

\* max(votes, key=votes.get): the first key, in the dict's order, that holds
\* the maximum
MaxKey(c) ==
    c[CHOOSE i \in 1..Len(c) :
        /\ c[i].count = MaxCount(c)
        /\ \A j \in 1..(i - 1) : c[j].count < MaxCount(c)].option

\* ------------------------------------------------------------------------
\* JuryProtocol
\* ------------------------------------------------------------------------

\* what _parse_jury_vote reads of a response: whether (the upper-cased)
\* response holds "VOTE:", what the text after the colon of its first VOTE:
\* line holds, and what the whole response holds
JuryResponses ==
    {r \in [has_vote : BOOLEAN, vote_guilty : BOOLEAN, vote_not : BOOLEAN,
            vote_not_guilty : BOOLEAN, guilty : BOOLEAN, not_guilty : BOOLEAN] :
        /\ r.vote_guilty \/ r.vote_not => r.has_vote
        /\ r.vote_not_guilty => r.vote_guilty /\ r.vote_not
        /\ r.vote_guilty => r.guilty
        /\ r.vote_not_guilty => r.not_guilty
        /\ r.not_guilty => r.guilty}

\* what a piece of text (without a colon or a line break) holds of the words
\* the parser looks for, upper-cased: neither, "GUILTY" only, "NOT" only,
\* "NOT GUILTY", or both words apart ("guilty, I do not doubt it")
Pieces == {"none", "guilty", "not", "not guilty", "guilty not"}

HasGuilty(piece) == piece \in {"guilty", "not guilty", "guilty not"}

HasNot(piece) == piece \in {"not", "not guilty", "guilty not"}

HasNotGuilty(piece) == piece = "not guilty"

\* a line of a response: the text before "VOTE:" and the text after it, or
\* a line without "VOTE:" (its text is in before)
JuryLines ==
    {l \in [vote : BOOLEAN, before : Pieces, after : Pieces] :
        ~l.vote => l.after = "none"}

\* the response texts of a juror: one or two lines
JuryTexts == {<<l>> : l \in JuryLines} \cup (JuryLines \X JuryLines)

\* what _parse_jury_vote reads of a text: vote_line is the first line with
\* "VOTE:" ([...][0]) and vote_text what follows its first colon
JuryRead(text) ==
    LET vote_lines == {i \in 1..Len(text) : text[i].vote}
        has_vote == vote_lines # {}
        vote_text == IF has_vote
                     THEN text[CHOOSE i \in vote_lines :
                                  \A j \in vote_lines : i <= j].after
                     ELSE "none"
    IN  [has_vote |-> has_vote,
         vote_guilty |-> HasGuilty(vote_text),
         vote_not |-> HasNot(vote_text),
         vote_not_guilty |-> HasNotGuilty(vote_text),
         guilty |-> \E i \in 1..Len(text) :
                        HasGuilty(text[i].before) \/ HasGuilty(text[i].after),
         not_guilty |-> \E i \in 1..Len(text) :
                        HasNotGuilty(text[i].before) \/ HasNotGuilty(text[i].after)]

\* mutant of _parse_jury_vote: "NOT" in the vote text is not looked at
_parse_jury_vote_AnyGuilty(response, options) ==
    IF response.has_vote /\ response.vote_guilty
    THEN "Guilty"
    ELSE IF response.not_guilty
    THEN "Not Guilty"
    ELSE IF response.guilty
    THEN "Guilty"
    ELSE options[1]

_parse_jury_vote(response, options) ==
    IF response.has_vote /\ response.vote_guilty /\ ~response.vote_not
    THEN "Guilty"
    ELSE IF response.has_vote /\ response.vote_not_guilty
    THEN "Not Guilty"
    ELSE IF response.not_guilty
    THEN "Not Guilty"
    ELSE IF response.guilty
    THEN "Guilty"
    ELSE options[1]

\* mutant of Jury_validate_participation: no upper limit
Jury_validate_participation_NoUpper(n) == 6 <= n

\* validate_participation(agents), of len(agents)
Jury_validate_participation(n) == 6 <= n /\ n <= 12

\* mutant of _check_consensus: the share must exceed the threshold
_check_consensus_Above(votes, total_jurors) ==
    IF votes = EmptyCounter
    THEN FALSE
    ELSE MaxCount(votes) * 100 > jury.required_consensus * total_jurors

\* mutant of _check_consensus: the number of votes required is rounded down
_check_consensus_Rounded(votes, total_jurors) ==
    IF votes = EmptyCounter
    THEN FALSE
    ELSE MaxCount(votes) >= (jury.required_consensus * total_jurors) \div 100

_check_consensus(votes, total_jurors) ==
    IF votes = EmptyCounter
    THEN FALSE
    ELSE MaxCount(votes) * 100 >= jury.required_consensus * total_jurors

_find_holdouts(vote_trajectory) == <<>>

\* key_arguments[:5]
Top5(key_arguments) ==
    SubSeq(key_arguments, 1, Min2(5, Len(key_arguments)))

JuryVerdict(verdict, final_vote_counts, rounds_taken, consensus_reached, vote_trajectory, key_arguments, holdouts) ==
    [verdict |-> verdict,
     final_vote_counts |-> final_vote_counts,
     rounds_taken |-> rounds_taken,
     consensus_reached |-> consensus_reached,
     vote_trajectory |-> vote_trajectory,
     key_arguments |-> key_arguments,
     holdouts |-> holdouts]

NoVerdict == [verdict |-> "none"]

\* a JuryProtocol as constructed; required_consensus is in hundredths
JuryIdle(max_rounds, required_consensus, allow_hung_jury) ==
    [pc |-> "idle",
     max_rounds |-> max_rounds,
     required_consensus |-> required_consensus,
     allow_hung_jury |-> allow_hung_jury,
     n |-> 0,                      \* len(agents)
     options |-> <<>>,             \* verdict_options
     i |-> 0,                      \* agents consulted in the running phase
     votes |-> EmptyCounter,       \* the Counter of the running ballot
     arguments |-> <<>>,           \* the arguments of the running discussion
     current_votes |-> EmptyCounter,
     vote_trajectory |-> <<>>,
     key_arguments |-> <<>>,
     round_num |-> 0,
     asked |-> [vote |-> 0, argument |-> 0],   \* agent.think calls made
     error |-> "none",             \* the exception execute raised
     phase |-> "none",             \* where agent.think raised it
     parsed |-> None,              \* the call made of _parse_jury_vote or
                                   \* _check_consensus, outside execute
     result |-> NoVerdict]

\* mutant of JuryNoConsensus: the ballots are counted as rounds
JuryNoConsensus_CountsBallots(current_votes, vote_trajectory, key_arguments) ==
    IF jury.allow_hung_jury
    THEN JuryVerdict("Hung Jury", current_votes, Len(vote_trajectory), FALSE,
                     vote_trajectory, Top5(key_arguments),
                     _find_holdouts(vote_trajectory))
    ELSE JuryVerdict(MaxKey(current_votes), current_votes, Len(vote_trajectory),
                     FALSE, vote_trajectory, Top5(key_arguments),
                     _find_holdouts(vote_trajectory))

\* mutant of JuryNoConsensus: allow_hung_jury is not consulted
JuryNoConsensus_AlwaysHung(current_votes, vote_trajectory, key_arguments) ==
    JuryVerdict("Hung Jury", current_votes, jury.max_rounds, FALSE,
                vote_trajectory, Top5(key_arguments),
                _find_holdouts(vote_trajectory))

\* the end of execute once the loop has run out
JuryNoConsensus(current_votes, vote_trajectory, key_arguments) ==
    IF jury.allow_hung_jury
    THEN JuryVerdict("Hung Jury", current_votes, jury.max_rounds, FALSE,
                     vote_trajectory, Top5(key_arguments),
                     _find_holdouts(vote_trajectory))
    ELSE JuryVerdict(MaxKey(current_votes), current_votes, jury.max_rounds, FALSE,
                     vote_trajectory, Top5(key_arguments),
                     _find_holdouts(vote_trajectory))

\* mutant of Jury_execute: vote_trajectory is kept from the call before
Jury_execute_KeepsTrajectory(n, options) ==
    LET call == [JuryIdle(jury.max_rounds, jury.required_consensus,
                          jury.allow_hung_jury)
                    EXCEPT !.vote_trajectory = jury.vote_trajectory]
    IN  IF ~Jury_validate_participation(n)
        THEN jury' = [call EXCEPT !.pc = "error", !.error = "ValueError",
                                  !.n = n, !.options = options]
        ELSE jury' = [call EXCEPT !.pc = "initial_vote", !.n = n,
                                  !.options = options]

\* execute(agents, context), up to the first agent.think of _initial_vote
\* the locals of execute are new in every call
Jury_execute(n, options) ==
    LET call == JuryIdle(jury.max_rounds, jury.required_consensus,
                         jury.allow_hung_jury)
    IN  IF ~Jury_validate_participation(n)
        THEN jury' = [call EXCEPT !.pc = "error", !.error = "ValueError",
                                  !.n = n, !.options = options]
        ELSE jury' = [call EXCEPT !.pc = "initial_vote", !.n = n,
                                  !.options = options]

\* the votes _parse_jury_vote can make of one juror's response
JuryVotes(options) == {_parse_jury_vote(response, options) : response \in JuryResponses}

\* _initial_vote: one juror's vote, as parsed from the response; with the
\* last one, the check of round 0
Jury_initial_vote(vote) ==
    LET votes == CounterAdd(jury.votes, vote)
        asked == [jury.asked EXCEPT !.vote = @ + 1]
        vote_trajectory == <<votes>>
    IN  IF jury.i + 1 < jury.n
        THEN jury' = [jury EXCEPT !.votes = votes, !.i = @ + 1, !.asked = asked]
        ELSE IF _check_consensus(votes, jury.n)
        THEN jury' = [jury EXCEPT
                 !.pc = "done", !.votes = EmptyCounter, !.i = 0, !.asked = asked,
                 !.current_votes = votes, !.vote_trajectory = vote_trajectory,
                 !.result = JuryVerdict(MaxKey(votes), votes, 0, TRUE,
                                        vote_trajectory, <<>>, <<>>)]
        ELSE IF jury.max_rounds >= 1
        THEN jury' = [jury EXCEPT
                 !.pc = "discussion", !.votes = EmptyCounter, !.i = 0,
                 !.asked = asked, !.round_num = 1,
                 !.current_votes = votes, !.vote_trajectory = vote_trajectory]
        ELSE jury' = [jury EXCEPT
                 !.pc = "done", !.votes = EmptyCounter, !.i = 0, !.asked = asked,
                 !.current_votes = votes, !.vote_trajectory = vote_trajectory,
                 !.result = JuryNoConsensus(votes, vote_trajectory, <<>>)]

\* _discussion_round going on to the re-vote after the first argument
Jury_discussion_round_OneSpeaker ==
    LET arguments == Append(jury.arguments,
                            [agent |-> jury.i + 1, round |-> jury.round_num])
        asked == [jury.asked EXCEPT !.argument = @ + 1]
    IN  jury' = [jury EXCEPT !.pc = "revote", !.arguments = <<>>, !.i = 0,
                             !.asked = asked,
                             !.key_arguments = @ \o arguments]

\* _discussion_round: one juror's argument; with the last one, the round's
\* arguments are added to key_arguments
Jury_discussion_round ==
    LET arguments == Append(jury.arguments,
                            [agent |-> jury.i + 1, round |-> jury.round_num])
        asked == [jury.asked EXCEPT !.argument = @ + 1]
    IN  IF jury.i + 1 < jury.n
        THEN jury' = [jury EXCEPT !.arguments = arguments, !.i = @ + 1,
                                  !.asked = asked]
        ELSE jury' = [jury EXCEPT !.pc = "revote", !.arguments = <<>>, !.i = 0,
                                  !.asked = asked,
                                  !.key_arguments = @ \o arguments]

\* mutant of Jury_revote: the loop takes one round more
Jury_revote_OneRoundMore(vote) ==
    LET new_votes == CounterAdd(jury.votes, vote)
        asked == [jury.asked EXCEPT !.vote = @ + 1]
        vote_trajectory == Append(jury.vote_trajectory, new_votes)
    IN  IF jury.i + 1 < jury.n
        THEN jury' = [jury EXCEPT !.votes = new_votes, !.i = @ + 1, !.asked = asked]
        ELSE IF _check_consensus(new_votes, jury.n)
        THEN jury' = [jury EXCEPT
                 !.pc = "done", !.votes = EmptyCounter, !.i = 0, !.asked = asked,
                 !.vote_trajectory = vote_trajectory,
                 !.result = JuryVerdict(MaxKey(new_votes), new_votes,
                                        jury.round_num, TRUE, vote_trajectory,
                                        Top5(jury.key_arguments),
                                        _find_holdouts(vote_trajectory))]
        ELSE IF jury.round_num <= jury.max_rounds
        THEN jury' = [jury EXCEPT
                 !.pc = "discussion", !.votes = EmptyCounter, !.i = 0,
                 !.asked = asked, !.round_num = @ + 1,
                 !.current_votes = new_votes, !.vote_trajectory = vote_trajectory]
        ELSE jury' = [jury EXCEPT
                 !.pc = "done", !.votes = EmptyCounter, !.i = 0, !.asked = asked,
                 !.current_votes = new_votes, !.vote_trajectory = vote_trajectory,
                 !.result = JuryNoConsensus(new_votes, vote_trajectory,
                                            jury.key_arguments)]

\* _revote: one juror's vote, as parsed from the response; with the last
\* one, the check of the round
Jury_revote(vote) ==
    LET new_votes == CounterAdd(jury.votes, vote)
        asked == [jury.asked EXCEPT !.vote = @ + 1]
        vote_trajectory == Append(jury.vote_trajectory, new_votes)
    IN  IF jury.i + 1 < jury.n
        THEN jury' = [jury EXCEPT !.votes = new_votes, !.i = @ + 1, !.asked = asked]
        ELSE IF _check_consensus(new_votes, jury.n)
        THEN jury' = [jury EXCEPT
                 !.pc = "done", !.votes = EmptyCounter, !.i = 0, !.asked = asked,
                 !.vote_trajectory = vote_trajectory,
                 !.result = JuryVerdict(MaxKey(new_votes), new_votes,
                                        jury.round_num, TRUE, vote_trajectory,
                                        Top5(jury.key_arguments),
                                        _find_holdouts(vote_trajectory))]
        ELSE IF jury.round_num < jury.max_rounds
        THEN jury' = [jury EXCEPT
                 !.pc = "discussion", !.votes = EmptyCounter, !.i = 0,
                 !.asked = asked, !.round_num = @ + 1,
                 !.current_votes = new_votes, !.vote_trajectory = vote_trajectory]
        ELSE jury' = [jury EXCEPT
                 !.pc = "done", !.votes = EmptyCounter, !.i = 0, !.asked = asked,
                 !.current_votes = new_votes, !.vote_trajectory = vote_trajectory,
                 !.result = JuryNoConsensus(new_votes, vote_trajectory,
                                            jury.key_arguments)]

\* the numbers of agents execute is called with: 6..12 are accepted
JurorCounts == {5, 6, 12, 13}

\* verdict_options: the default of execute
OptionLists == {<<"Guilty", "Not Guilty">>}

\* required_consensus, in hundredths: the default 0.75, and 0.6
ConsensusLevels == {60, 75}

\* no JuryProtocol was constructed
JuryAbsent == [JuryIdle(0, 75, TRUE) EXCEPT !.pc = "absent"]

JuryInit ==
    jury \in {JuryIdle(m, c, h) : m \in 0..JuryMaxRounds, c \in ConsensusLevels,
                                  h \in BOOLEAN}

\* execute called with n agents; ValueError unless 6 <= n <= 12
JuryExecute ==
    /\ jury.pc = "idle"
    /\ \E n \in JurorCounts, options \in OptionLists : Jury_execute(n, options)
    /\ UNCHANGED <<neg, voting, state, first>>

\* the k-th vote of a ballot that was counted as the Counter c, the votes
\* taken option by option in the order of the Counter's keys
Unroll(c, k) ==
    c[CHOOSE j \in 1..Len(c) :
         /\ SumCounts(SubSeq(c, 1, j - 1)) < k
         /\ k <= SumCounts(SubSeq(c, 1, j))].option

\* what the juror asked next can vote: anything, or, when a run is repeated
\* with the same participants, what the ballot of the first run held.  The
\* jurors' votes of a ballot are known by their Counter; within a ballot
\* they are repeated in the order of its keys, which counts to the same
\* Counter.
JuryAnswers ==
    LET ballot == Len(jury.vote_trajectory) + 1
    IN  IF first.step = "second" /\ ballot <= Len(first.answers)
        THEN {Unroll(first.answers[ballot], jury.i + 1)}
        ELSE JuryVotes(jury.options)

\* agent.think raises in _initial_vote, _discussion_round or _revote: the
\* exception leaves execute, whose locals are lost; i tells how many agents
\* of the phase had answered
JuryThinkFails ==
    /\ jury.pc \in {"initial_vote", "discussion", "revote"}
    /\ \E attempts \in Attempts : generate(attempts) = "RetryError"
    /\ jury' = [JuryIdle(jury.max_rounds, jury.required_consensus,
                         jury.allow_hung_jury)
                  EXCEPT !.pc = "error", !.error = "RetryError",
                         !.n = jury.n, !.options = jury.options,
                         !.i = jury.i, !.round_num = jury.round_num,
                         !.phase = jury.pc]
    /\ UNCHANGED <<neg, voting, state, first>>

\* The log entries of a jury name the agent (by its place in the list); the
\* text of a response and the vote parsed from it are left out of the entry,
\* the tally of the ballot holds the votes.
JuryInitialVote ==
    /\ jury.pc = "initial_vote"
    /\ \E vote \in JuryAnswers : Jury_initial_vote(vote)
    /\ state' = log_response(state, jury.i + 1, "ballot", "vote")
    /\ UNCHANGED <<neg, voting, first>>

JuryDiscussionRound ==
    /\ jury.pc = "discussion"
    /\ Jury_discussion_round
    /\ state' = log_message(state, jury.i + 1, "argument", "argument")
    /\ UNCHANGED <<neg, voting, first>>

JuryRevote ==
    /\ jury.pc = "revote"
    /\ \E vote \in JuryAnswers : Jury_revote(vote)
    /\ state' = log_response(state, jury.i + 1, "ballot", "vote")
    /\ UNCHANGED <<neg, voting, first>>

\* ------------------------------------------------------------------------
\* VotingProtocol
\* ------------------------------------------------------------------------

\* a float quotient num / den, kept exact
Frac(num, den) == [num |-> num, den |-> den]

\* equality of two such floats
FracEq(a, b) == a.num * b.den = b.num * a.den

\* what _parse_vote reads of a response to len(options) options:
\*   vote_num  the option index its VOTE: lines select (0: none in range)
\*   mention   the first listed option whose text occurs in it (0: none)
\*   digit     the first option index found in its first 50 characters (0: none)
VoteResponses(k) == [vote_num : 0..k, mention : 0..k, digit : 0..k]

\* A response as _parse_vote reads it:
\*   vote_lines  its lines that hold VOTE:, each as the digits that follow
\*               the first colon of the line, in order
\*   mentions    the options (by position) whose text occurs in it, whatever
\*               the case
\*   digits      the digits that occur in its first 50 characters
Digits == 0..4

DigitStrings == {<<>>} \cup [1..1 -> Digits] \cup [1..2 -> Digits]

\* no VOTE: line, one, or two short ones
VoteLines ==
    {<<>>} \cup {<<d>> : d \in DigitStrings}
           \cup {<<d, e>> : d \in {<<>>} \cup [1..1 -> Digits],
                            e \in {<<>>} \cup [1..1 -> Digits]}

Texts == [vote_lines : VoteLines, mentions : SUBSET (1..3), digits : SUBSET (1..3)]

\* int(''.join(filter(str.isdigit, vote_str))): the digits of the line read
\* as one number; -1 stands for the ValueError of int(''), which is passed
vote_num(vote_str) ==
    IF vote_str = <<>> THEN -1
    ELSE IF Len(vote_str) = 1 THEN vote_str[1]
    ELSE 10 * vote_str[1] + vote_str[2]

\* the least number of a set that is not empty
Least(S) == CHOOSE x \in S : \A y \in S : x <= y

\* what the three tiers of _parse_vote find in a text, for k options: the
\* choice of the last VOTE: line whose number is in 1..k, the first listed
\* option that is mentioned, the first position number among the digits
\* (0: nothing)
Read(text, k) ==
    LET in_range == {j \in 1..Len(text.vote_lines) :
                        /\ 1 <= vote_num(text.vote_lines[j])
                        /\ vote_num(text.vote_lines[j]) <= k}
        last == CHOOSE j \in in_range : \A i \in in_range : i <= j
        mentioned == text.mentions \cap (1..k)
        numbers == text.digits \cap (1..k)
    IN  [vote_num |-> IF in_range = {} THEN 0 ELSE vote_num(text.vote_lines[last]),
         mention |-> IF mentioned = {} THEN 0 ELSE Least(mentioned),
         digit |-> IF numbers = {} THEN 0 ELSE Least(numbers)]

\* _parse_vote looking for a position number before it looks for an
\* option's text
_parse_vote_DigitBeforeText(response, options) ==
    IF response.vote_num > 0 THEN options[response.vote_num]
    ELSE IF response.digit > 0 THEN options[response.digit]
    ELSE IF response.mention > 0 THEN options[response.mention]
    ELSE IF voting.allow_abstention THEN "ABSTAIN"
    ELSE options[1]

\* mutant of _parse_vote: allow_abstention is not consulted
_parse_vote_DefaultsFirst(response, options) ==
    IF response.vote_num > 0 THEN options[response.vote_num]
    ELSE IF response.mention > 0 THEN options[response.mention]
    ELSE IF response.digit > 0 THEN options[response.digit]
    ELSE options[1]

\* _parse_vote(response, options)["choice"]
_parse_vote(response, options) ==
    IF response.vote_num > 0 THEN options[response.vote_num]
    ELSE IF response.mention > 0 THEN options[response.mention]
    ELSE IF response.digit > 0 THEN options[response.digit]
    ELSE IF voting.allow_abstention THEN "ABSTAIN"
    ELSE options[1]

\* Counter([v["choice"] for v in votes])
RECURSIVE CounterOf(_)
CounterOf(votes) ==
    IF votes = <<>> THEN EmptyCounter
    ELSE CounterAdd(CounterOf(SubSeq(votes, 1, Len(votes) - 1)), votes[Len(votes)])

\* mutant of Breakdown: the last vote is left out
Breakdown_DropsLast(votes) ==
    LET c == CounterOf(votes)
    IN  [j \in 1..Len(c) |->
            [option |-> c[j].option,
             agents |-> {a \in 1..(Len(votes) - 1) : votes[a] = c[j].option}]]

\* breakdown: per choice, in the order of the first vote for it, the agents
\* (by their place in the list) that chose it
Breakdown(votes) ==
    LET c == CounterOf(votes)
    IN  [j \in 1..Len(c) |->
            [option |-> c[j].option,
             agents |-> {a \in 1..Len(votes) : votes[a] = c[j].option}]]

\* vote_counts.most_common(2)[1][1], of a counter of two keys or more: the
\* highest count among the keys other than the winner
SecondCount(c) ==
    LET w == CHOOSE i \in 1..Len(c) : c[i].option = MaxKey(c)
        rest == {c[i].count : i \in (1..Len(c)) \ {w}}
    IN  CHOOSE m \in rest : \A x \in rest : x <= m

\* mutant of Tied: a tie only when the two leaders hold every vote
Tied_NoThird(c) == Len(c) = 2 /\ MaxCount(c) = SecondCount(c)

\* mutant of Tied: the first two keys of the tally are taken for the leaders
Tied_FirstTwoKeys(c) == Len(c) > 1 /\ c[1].count = c[2].count

\* tied = len(top_two) > 1 and top_two[0][1] == top_two[1][1]
Tied(c) == Len(c) > 1 /\ MaxCount(c) = SecondCount(c)

VotingResult(winner, vote_counts, total_votes, consensus_type, is_decisive, tied, confidence, breakdown) ==
    [winner |-> winner,
     vote_counts |-> vote_counts,
     total_votes |-> total_votes,
     consensus_type |-> consensus_type,
     is_decisive |-> is_decisive,
     tied |-> tied,
     confidence |-> confidence,
     breakdown |-> breakdown]

\* mutant of _simple_majority: half of the votes is enough
_simple_majority_Half(vote_counts, total_votes, breakdown) ==
    LET winner == MaxKey(vote_counts)
        max_votes == MaxCount(vote_counts)
        is_decisive == 2 * max_votes >= total_votes
        tied == Tied(vote_counts)
    IN  VotingResult(winner, vote_counts, total_votes, "simple_majority",
                     is_decisive /\ ~tied, tied,
                     IF ~tied THEN Frac(max_votes, total_votes) ELSE Frac(1, 2),
                     breakdown)

\* mutant of _simple_majority: the confidence is 0.5 unless the result is decisive
_simple_majority_SureOnlyIfDecisive(vote_counts, total_votes, breakdown) ==
    LET winner == MaxKey(vote_counts)
        max_votes == MaxCount(vote_counts)
        is_decisive == 2 * max_votes > total_votes
        tied == Tied(vote_counts)
    IN  VotingResult(winner, vote_counts, total_votes, "simple_majority",
                     is_decisive /\ ~tied, tied,
                     IF is_decisive /\ ~tied THEN Frac(max_votes, total_votes)
                                             ELSE Frac(1, 2),
                     breakdown)

_simple_majority(vote_counts, total_votes, breakdown) ==
    LET winner == MaxKey(vote_counts)
        max_votes == MaxCount(vote_counts)
        is_decisive == 2 * max_votes > total_votes
        tied == Tied(vote_counts)
    IN  VotingResult(winner, vote_counts, total_votes, "simple_majority",
                     is_decisive /\ ~tied, tied,
                     IF ~tied THEN Frac(max_votes, total_votes) ELSE Frac(1, 2),
                     breakdown)

\* mutant of _supermajority: exactly two thirds is not enough
_supermajority_Above(vote_counts, total_votes, breakdown) ==
    LET winner == MaxKey(vote_counts)
        max_votes == MaxCount(vote_counts)
        is_decisive == 3 * max_votes > 2 * total_votes
    IN  VotingResult(winner, vote_counts, total_votes, "supermajority",
                     is_decisive, FALSE, Frac(max_votes, total_votes), breakdown)

_supermajority(vote_counts, total_votes, breakdown) ==
    LET winner == MaxKey(vote_counts)
        max_votes == MaxCount(vote_counts)
        is_decisive == 3 * max_votes >= 2 * total_votes
    IN  VotingResult(winner, vote_counts, total_votes, "supermajority",
                     is_decisive, FALSE, Frac(max_votes, total_votes), breakdown)

\* mutant of _unanimous: one dissenting vote is overlooked
_unanimous_AllButOne(vote_counts, total_votes, breakdown) ==
    LET winner == MaxKey(vote_counts)
        max_votes == MaxCount(vote_counts)
        is_decisive == max_votes >= total_votes - 1
    IN  VotingResult(winner, vote_counts, total_votes, "unanimous",
                     is_decisive, FALSE,
                     IF is_decisive THEN Frac(1, 1) ELSE Frac(max_votes, total_votes),
                     breakdown)

_unanimous(vote_counts, total_votes, breakdown) ==
    LET winner == MaxKey(vote_counts)
        max_votes == MaxCount(vote_counts)
        is_decisive == max_votes = total_votes
    IN  VotingResult(winner, vote_counts, total_votes, "unanimous",
                     is_decisive, FALSE,
                     IF is_decisive THEN Frac(1, 1) ELSE Frac(max_votes, total_votes),
                     breakdown)

\* mutant of _plurality: the leader needs a majority as well
_plurality_NeedsMajority(vote_counts, total_votes, breakdown) ==
    LET winner == MaxKey(vote_counts)
        max_votes == MaxCount(vote_counts)
        tied == Tied(vote_counts)
    IN  VotingResult(winner, vote_counts, total_votes, "plurality",
                     ~tied /\ 2 * max_votes > total_votes, tied,
                     Frac(max_votes, total_votes), breakdown)

_plurality(vote_counts, total_votes, breakdown) ==
    LET winner == MaxKey(vote_counts)
        max_votes == MaxCount(vote_counts)
        tied == Tied(vote_counts)
    IN  VotingResult(winner, vote_counts, total_votes, "plurality",
                     ~tied, tied, Frac(max_votes, total_votes), breakdown)

\* weighted_votes[choice] += weight
AddWeight(c, v, w) ==
    IF v \in Keys(c)
    THEN [i \in 1..Len(c) |->
             IF c[i].option = v THEN [c[i] EXCEPT !.count = @ + w] ELSE c[i]]
    ELSE Append(c, [option |-> v, count |-> w])

\* weighted_votes after the first k votes: per choice, in the order of the
\* first vote for it, the sum of agent.traits.conscientiousness (in
\* hundredths) of the agents that chose it
RECURSIVE WeightedVotes(_, _, _)
WeightedVotes(votes, agents, k) ==
    IF k = 0 THEN <<>>
    ELSE AddWeight(WeightedVotes(votes, agents, k - 1), votes[k], agents[k])

\* sum(weighted_votes.values())
RECURSIVE TotalWeight(_)
TotalWeight(c) ==
    IF c = <<>> THEN 0 ELSE c[1].count + TotalWeight(Tail(c))

\* {k: int(v * 10) for k, v in weighted_votes.items()}
ScaledCounts(c) ==
    [i \in 1..Len(c) |-> [option |-> c[i].option, count |-> (c[i].count * 10) \div 100]]

\* mutant of _weighted: every vote weighs the same
_weighted_Unweighted(votes, breakdown) ==
    LET weighted_votes == WeightedVotes(votes, [a \in 1..Len(votes) |-> 50], Len(votes))
        winner == MaxKey(weighted_votes)
        total_weight == TotalWeight(weighted_votes)
    IN  VotingResult(winner, ScaledCounts(weighted_votes), Len(votes), "weighted",
                     TRUE, FALSE,
                     Frac(CountOf(weighted_votes, winner), total_weight), breakdown)

\* _weighted(votes, breakdown), when the total weight is not 0
_weighted(votes, breakdown) ==
    LET weighted_votes == WeightedVotes(votes, voting.agents, Len(votes))
        winner == MaxKey(weighted_votes)
        total_weight == TotalWeight(weighted_votes)
    IN  VotingResult(winner, ScaledCounts(weighted_votes), Len(votes), "weighted",
                     TRUE, FALSE,
                     Frac(CountOf(weighted_votes, winner), total_weight), breakdown)

\* whether _weighted divides by a total weight of 0: ZeroDivisionError
ZeroWeight(votes) ==
    /\ voting.consensus_type = "weighted"
    /\ TotalWeight(WeightedVotes(votes, voting.agents, Len(votes))) = 0

\* _calculate_result(votes, agents)
_calculate_result(votes) ==
    LET vote_counts == CounterOf(votes)
        total_votes == Len(votes)
        breakdown == Breakdown(votes)
    IN  CASE voting.consensus_type = "simple_majority" ->
                 _simple_majority(vote_counts, total_votes, breakdown)
          [] voting.consensus_type = "supermajority" ->
                 _supermajority(vote_counts, total_votes, breakdown)
          [] voting.consensus_type = "unanimous" ->
                 _unanimous(vote_counts, total_votes, breakdown)
          [] voting.consensus_type = "plurality" ->
                 _plurality(vote_counts, total_votes, breakdown)
          [] voting.consensus_type = "weighted" ->
                 _weighted(votes, breakdown)
          [] OTHER ->
                 _simple_majority(vote_counts, total_votes, breakdown)

NoVotingResult == [winner |-> "none"]

\* a VotingProtocol as constructed
VotingIdle(consensus_type, allow_abstention) ==
    [pc |-> "idle",
     consensus_type |-> consensus_type,
     allow_abstention |-> allow_abstention,
     n |-> 0,                \* len(agents)
     agents |-> <<>>,        \* agent.traits.conscientiousness, in hundredths
     options |-> <<>>,
     votes |-> <<>>,         \* the choices collected, in the agents' order
     error |-> "none",       \* the exception execute raised
     last |-> "__init__",    \* the method called last from outside
     parsed |-> None,        \* a call of _parse_vote or _calculate_result
                             \* from outside, and what it gave
     result |-> NoVotingResult]

\* no VotingProtocol was constructed
VotingAbsent == [VotingIdle("simple_majority", FALSE) EXCEPT !.pc = "absent"]

\* validate_participation(agents), of len(agents)
Voting_validate_participation(n) == n >= 2

\* execute adding the votes to those of the call before
Voting_execute_KeepsVotes(agents, options) ==
    LET call == [voting EXCEPT !.n = Len(agents), !.agents = agents,
                               !.options = options,
                               !.error = "none", !.result = NoVotingResult,
                               !.last = "execute"]
    IN  IF ~Voting_validate_participation(Len(agents)) \/ options = <<>>
        THEN voting' = [call EXCEPT !.pc = "error", !.error = "ValueError"]
        ELSE voting' = [call EXCEPT !.pc = "collect"]

\* execute(agents, context), up to the first agent.think of _collect_votes
Voting_execute(agents, options) ==
    LET call == [voting EXCEPT !.n = Len(agents), !.agents = agents,
                               !.options = options, !.votes = <<>>,
                               !.error = "none", !.result = NoVotingResult,
                               !.last = "execute"]
    IN  IF ~Voting_validate_participation(Len(agents)) \/ options = <<>>
        THEN voting' = [call EXCEPT !.pc = "error", !.error = "ValueError"]
        ELSE voting' = [call EXCEPT !.pc = "collect"]

\* whether a tier of _parse_vote finds a vote in the response
Parseable(response) ==
    response.vote_num > 0 \/ response.mention > 0 \/ response.digit > 0

\* vote_data of _parse_vote: the choice, and of raw_response whether a tier
\* finds a vote in it
VoteData(response, options) ==
    [choice |-> _parse_vote(response, options),
     raw_response |-> IF Parseable(response) THEN "parseable" ELSE "unparseable"]

\* the vote_data _parse_vote can make of one agent's response
VotingChoices(options) ==
    {VoteData(response, options) : response \in VoteResponses(Len(options))}

\* mutant of Voting_collect_votes: execute returns the result without
\* writing it to the state
Voting_collect_votes_StateUntouched(vote_data) ==
    LET votes == Append(voting.votes, vote_data.choice)
        logged == log_response(state, Len(votes), vote_data.raw_response,
                               vote_data.choice)
    IN  IF Len(votes) < voting.n
        THEN /\ voting' = [voting EXCEPT !.votes = votes]
             /\ state' = logged
        ELSE IF ZeroWeight(votes)
        THEN /\ voting' = [voting EXCEPT !.pc = "error", !.votes = votes,
                                         !.error = "ZeroDivisionError"]
             /\ state' = logged
        ELSE /\ voting' = [voting EXCEPT !.pc = "done", !.votes = votes,
                                         !.result = _calculate_result(votes)]
             /\ state' = logged

\* _collect_votes: one agent's vote, as parsed from the response, and its
\* log entry; with the last one, the result, stored in the state
Voting_collect_votes(vote_data) ==
    LET votes == Append(voting.votes, vote_data.choice)
        logged == log_response(state, Len(votes), vote_data.raw_response,
                               vote_data.choice)
    IN  IF Len(votes) < voting.n
        THEN /\ voting' = [voting EXCEPT !.votes = votes]
             /\ state' = logged
        ELSE IF ZeroWeight(votes)
        THEN /\ voting' = [voting EXCEPT !.pc = "error", !.votes = votes,
                                         !.error = "ZeroDivisionError"]
             /\ state' = logged
        ELSE /\ voting' = [voting EXCEPT !.pc = "done", !.votes = votes,
                                         !.result = _calculate_result(votes)]
             /\ state' = [logged EXCEPT !.result = Some(voting'.result),
                                        !.is_complete = TRUE]

\* the rules of ConsensusType; ranked_choice is treated as simple_majority
\* by _calculate_result
ConsensusTypes ==
    {"simple_majority", "supermajority", "unanimous", "plurality", "weighted",
     "ranked_choice"}

OptionNames == <<"A", "B", "C">>

\* context["options"]: the first k names, k = 0 being the empty list
VotingOptionLists == {SubSeq(OptionNames, 1, k) : k \in {0, 2, 3}}

\* the numbers of agents execute is called with: two or more are accepted
VoterCounts == 1..MaxVoters

\* the agents of a vote, by their conscientiousness in hundredths: all 0.5;
\* the first 0.75 and the others 0.25; all 0.  Only _weighted reads the
\* trait: under the other rules the first list stands for all of them.
AgentLists(n) ==
    IF voting.consensus_type = "weighted"
    THEN {[a \in 1..n |-> 50], [a \in 1..n |-> IF a = 1 THEN 75 ELSE 25],
          [a \in 1..n |-> 0]}
    ELSE {[a \in 1..n |-> 50]}

VotingInit ==
    voting \in {VotingIdle(t, a) : t \in ConsensusTypes, a \in BOOLEAN}

\* execute called with agents and options; ValueError with fewer than two
\* agents or without options
VotingExecute ==
    /\ voting.pc = "idle"
    /\ \E n \in VoterCounts, options \in VotingOptionLists :
          \E agents \in AgentLists(n) : Voting_execute(agents, options)
    /\ UNCHANGED <<neg, jury, state, first>>

\* what the agent asked next can answer: anything, or, when a run is
\* repeated with the same participants, what it answered in the first run
VotingAnswers ==
    IF first.step = "second" /\ Len(voting.votes) < Len(first.answers)
    THEN {first.answers[Len(voting.votes) + 1]}
    ELSE VotingChoices(voting.options)

VotingCollectVotes ==
    /\ voting.pc = "collect"
    /\ \E vote_data \in VotingAnswers : Voting_collect_votes(vote_data)
    /\ UNCHANGED <<neg, jury, first>>

\* agent.think raises in _collect_votes: the exception leaves execute
VotingThinkFails ==
    /\ voting.pc = "collect"
    /\ \E attempts \in Attempts : generate(attempts) = "RetryError"
    /\ voting' = [voting EXCEPT !.pc = "error", !.error = "RetryError"]
    /\ UNCHANGED <<neg, jury, state, first>>

\* ------------------------------------------------------------------------
\* The methods of Protocol called from outside, on a VotingProtocol that is
\* not inside execute
\* ------------------------------------------------------------------------

VotingCallable == voting.pc \in {"idle", "done", "error"}

\* log_message(sender_id, content, message_type)
LogMessage ==
    /\ VotingCallable
    /\ Len(state.messages) < MaxLog
    /\ \E message_type \in {"statement", "vote"} :
          state' = log_message(state, 1, "content", message_type)
    /\ voting' = [voting EXCEPT !.last = "log_message"]
    /\ UNCHANGED <<neg, jury, first>>

\* log_response(agent_id, response, vote=vote)
LogResponse ==
    /\ VotingCallable
    /\ Len(state.responses) < MaxLog
    /\ \E vote \in {"A", "B"} :
          state' = log_response(state, 1, "response", vote)
    /\ voting' = [voting EXCEPT !.last = "log_response"]
    /\ UNCHANGED <<neg, jury, first>>

\* reset()
Reset ==
    /\ VotingCallable
    /\ reset
    /\ voting' = [voting EXCEPT !.last = "reset"]
    /\ UNCHANGED <<neg, jury, first>>

\* execute called again, with one or two agents and two options or none,
\* on a protocol that was reset or not
ExecuteAgain ==
    /\ VotingCallable
    /\ Len(state.responses) < MaxLog
    /\ \E n \in {1, 2}, options \in {<<>>, <<"A", "B">>} :
          \E agents \in AgentLists(n) : Voting_execute(agents, options)
    /\ UNCHANGED <<neg, jury, state, first>>

\* _parse_vote(response, options) called on a protocol as constructed, with
\* two or three options.  It reads allow_abstention and writes nothing: one
\* call is taken per protocol.
ParseVote ==
    /\ voting.pc = "idle"
    /\ voting.last = "__init__"
    /\ \E options \in VotingOptionLists \ {<<>>}, text \in Texts :
          voting' = [voting EXCEPT
              !.last = "_parse_vote",
              !.parsed = Some([options |-> options, raw_response |-> text,
                               choice |-> _parse_vote(Read(text, Len(options)),
                                                      options)])]
    /\ UNCHANGED <<neg, jury, state, first>>

\* the verdict options _parse_jury_vote is called with
VerdictOptionLists ==
    {<<"Guilty", "Not Guilty">>, <<"Not Guilty", "Guilty">>,
     <<"Liable", "Not Liable">>}

\* _parse_jury_vote(response, options) called on a protocol as constructed.
\* It reads and writes nothing of the protocol: one call is taken per
\* protocol.
JuryParseVote ==
    /\ jury.pc = "idle"
    /\ jury.parsed = None
    /\ \E options \in VerdictOptionLists, text \in JuryTexts :
          jury' = [jury EXCEPT
              !.parsed = Some([options |-> options, raw_response |-> text,
                               vote |-> _parse_jury_vote(JuryRead(text),
                                                         options)])]
    /\ UNCHANGED <<neg, voting, state, first>>

\* ------------------------------------------------------------------------
\* Specifications
\* ------------------------------------------------------------------------

NegNext ==
    \/ NegExecute
    \/ NegSellerTurn
    \/ NegBuyerTurn

\* a NegotiationProtocol as constructed; the other protocols stay idle
InitNeg == NegInit /\ jury = JuryAbsent /\ voting = VotingAbsent /\ state = ProtocolState /\ first = NoFirst

\* negotiation runs
SpecNeg == InitNeg /\ [][NegNext]_vars

JuryNext ==
    \/ JuryExecute
    \/ JuryInitialVote
    \/ JuryDiscussionRound
    \/ JuryRevote

\* a JuryProtocol as constructed; the other protocols stay idle
InitJury == JuryInit /\ neg = NegAbsent /\ voting = VotingAbsent /\ state = ProtocolState /\ first = NoFirst

\* jury runs in which every juror answers
SpecJury == InitJury /\ [][JuryNext]_vars

\* the smallest juries execute accepts
SmallJuries == {6, 7}

\* execute called with a small jury
JuryExecuteSmall ==
    /\ jury.pc = "idle"
    /\ \E n \in SmallJuries, options \in OptionLists : Jury_execute(n, options)
    /\ UNCHANGED <<neg, voting, state, first>>

JuryLiveNext ==
    \/ JuryExecuteSmall
    \/ JuryInitialVote
    \/ JuryDiscussionRound
    \/ JuryRevote

\* runs of small juries, going on: execute is one sequential call, and a
\* phase that is asking a juror gets the answer and takes its next step
SpecJuryLive ==
    /\ InitJury
    /\ [][JuryLiveNext]_vars
    /\ WF_vars(JuryInitialVote)
    /\ WF_vars(JuryDiscussionRound)
    /\ WF_vars(JuryRevote)

VotingNext ==
    \/ VotingExecute
    \/ VotingCollectVotes

\* a VotingProtocol as constructed; the other protocols stay idle
InitVoting == VotingInit /\ neg = NegAbsent /\ jury = JuryAbsent /\ state = ProtocolState /\ first = NoFirst

\* voting runs in which every agent answers
SpecVoting == InitVoting /\ [][VotingNext]_vars

ExecuteNext ==
    \/ NegExecute
    \/ JuryExecute
    \/ VotingExecute

\* a protocol of one of the three classes as constructed
InitAny == InitNeg \/ InitJury \/ InitVoting

\* the calls of execute, of the three classes, up to the first participant
SpecExecute == InitAny /\ [][ExecuteNext]_vars

StateNext ==
    \/ ExecuteAgain
    \/ VotingCollectVotes
    \/ LogMessage
    \/ LogResponse
    \/ Reset

\* a VotingProtocol used again and again: runs of execute, log calls and
\* resets in any order
SpecState == InitVoting /\ [][StateNext]_vars

\* the negotiation of examples/03_agent_economy.py: the seller's minimum and
\* the buyer's maximum, in whole currency units
ScenarioReserve == 800

ScenarioMax == 1500

\* execute called with the prices of the example, and any two agents
NegExecuteScenario ==
    /\ neg.pc = "idle"
    /\ \E seller \in Traits, buyer \in Traits :
          Neg_execute(2, seller, buyer, ScenarioReserve * Scale, ScenarioMax * Scale)
    /\ UNCHANGED <<jury, voting, state, first>>

ScenarioNext ==
    \/ NegExecuteScenario
    \/ NegSellerTurn
    \/ NegBuyerTurn

\* negotiation runs at the prices of the example
SpecScenario == InitNeg /\ [][ScenarioNext]_vars

\* trait values around the 0.7 the initial positions are decided at
OpeningVals == {65, 70, 71, 80}

\* sellers and buyers that differ in the traits _get_initial_ask and
\* _get_initial_bid read
OpeningSellers ==
    {[openness |-> o, conscientiousness |-> 50, agreeableness |-> 50,
      neuroticism |-> n] : o \in OpeningVals, n \in OpeningVals}

OpeningBuyers ==
    {[openness |-> 50, conscientiousness |-> c, agreeableness |-> a,
      neuroticism |-> 50] : c \in OpeningVals, a \in OpeningVals}

\* execute called with two such agents; first keeps the arguments
NegExecuteOpening ==
    /\ neg.pc = "idle"
    /\ first = NoFirst
    /\ \E seller \in OpeningSellers, buyer \in OpeningBuyers,
          reserve \in Prices, max \in Prices :
          /\ Neg_execute(2, seller, buyer, reserve * Scale, max * Scale)
          /\ first' = [step |-> "first",
                       args |-> [seller |-> seller, buyer |-> buyer,
                                 reserve |-> reserve * Scale,
                                 max |-> max * Scale]]
    /\ UNCHANGED <<jury, voting, state>>

OpeningNext ==
    \/ NegExecuteOpening
    \/ NegSellerTurn
    \/ NegBuyerTurn

\* negotiation runs of agents with traits at and around 0.7
SpecOpening == InitNeg /\ [][OpeningNext]_vars

ParseNext == ParseVote

\* calls of _parse_vote on a VotingProtocol as constructed
SpecParse == InitVoting /\ [][ParseNext]_vars

JuryParseNext == JuryParseVote

\* calls of _parse_jury_vote on a JuryProtocol as constructed
SpecJuryParse == InitJury /\ [][JuryParseNext]_vars

\* ------------------------------------------------------------------------
\* A protocol object run twice: execute, reset(), and execute again with
\* the inputs of the first run and participants that answer as they did
\* ------------------------------------------------------------------------

\* agents whose traits are all alike
FewTraits ==
    {[openness |-> t, conscientiousness |-> t, agreeableness |-> t,
      neuroticism |-> t] : t \in TraitVals}

\* the first call of execute of a negotiation of two agents
NegExecuteFirst ==
    /\ neg.pc = "idle"
    /\ first = NoFirst
    /\ \E seller \in FewTraits, buyer \in FewTraits,
          reserve \in Prices, max \in Prices :
          /\ Neg_execute(2, seller, buyer, reserve * Scale, max * Scale)
          /\ first' = [step |-> "first",
                       args |-> [seller |-> seller, buyer |-> buyer,
                                 reserve |-> reserve * Scale,
                                 max |-> max * Scale]]
    /\ UNCHANGED <<jury, voting, state>>

\* the first call of execute of a jury of five or six
JuryExecuteFirst ==
    /\ jury.pc = "idle"
    /\ first = NoFirst
    /\ \E n \in {5, 6}, options \in OptionLists :
          /\ Jury_execute(n, options)
          /\ first' = [step |-> "first", args |-> [n |-> n, options |-> options]]
    /\ UNCHANGED <<neg, voting, state>>

\* the first call of execute of a vote of one to three agents, on two
\* options or none
VotingExecuteFirst ==
    /\ voting.pc = "idle"
    /\ first = NoFirst
    /\ \E n \in 1..3, options \in {<<>>, <<"A", "B">>} :
          \E agents \in AgentLists(n) :
             /\ Voting_execute(agents, options)
             /\ first' = [step |-> "first",
                          args |-> [agents |-> agents, options |-> options]]
    /\ UNCHANGED <<neg, jury, state>>

\* execute has returned or raised
Ended ==
    \/ neg.pc \in {"done", "error"}
    \/ jury.pc \in {"done", "error"}
    \/ voting.pc \in {"done", "error"}

\* how the call of execute ended: whether it raised, the rounds taken, and
\* the kind of terminal outcome (for a vote, decisive or not and tied or not)
Outcome ==
    IF neg.pc = "done"
    THEN [raised |-> FALSE, rounds_taken |-> neg.result.rounds_taken,
          type |-> neg.result.outcome]
    ELSE IF jury.pc = "done"
    THEN [raised |-> FALSE, rounds_taken |-> jury.result.rounds_taken,
          type |-> IF jury.result.consensus_reached THEN "consensus"
                   ELSE IF jury.result.verdict = "Hung Jury" THEN "hung"
                   ELSE "forced"]
    ELSE IF voting.pc = "done"
    THEN [raised |-> FALSE, rounds_taken |-> 0,
          type |-> IF voting.result.tied THEN "tied"
                   ELSE IF voting.result.is_decisive THEN "decisive"
                   ELSE "undecided"]
    ELSE [raised |-> TRUE, rounds_taken |-> 0, type |-> "error"]

\* what the participants answered in the run that ended: the ballots of a
\* jury as counted, the logged vote data of a vote
Answered ==
    IF jury.pc = "done"
    THEN jury.vote_trajectory
    ELSE IF voting.pc # "absent"
    THEN [k \in 1..Len(state.responses) |->
             [choice |-> state.responses[k].vote,
              raw_response |-> state.responses[k].response]]
    ELSE <<>>

\* reset() after the first run
ResetAfterRun ==
    /\ first.step = "first"
    /\ Ended
    /\ reset
    /\ first' = [step |-> "reset", args |-> first.args,
                 answers |-> Answered, outcome |-> Outcome]
    /\ UNCHANGED <<neg, jury, voting>>

\* execute called again with the inputs of the first run
ExecuteSame ==
    /\ first.step = "reset"
    /\ first' = [first EXCEPT !.step = "second"]
    /\ IF neg.pc # "absent"
       THEN /\ Neg_execute(2, first.args.seller, first.args.buyer,
                           first.args.reserve, first.args.max)
            /\ UNCHANGED <<jury, voting, state>>
       ELSE IF jury.pc # "absent"
       THEN /\ Jury_execute(first.args.n, first.args.options)
            /\ UNCHANGED <<neg, voting, state>>
       ELSE /\ Voting_execute(first.args.agents, first.args.options)
            /\ UNCHANGED <<neg, jury, state>>

\* what execute returned (nothing when it raised)
Returned ==
    IF neg.pc # "absent" THEN neg.result
    ELSE IF jury.pc # "absent" THEN jury.result
    ELSE voting.result

\* execute called again with the inputs of the first run, on the protocol
\* as the first run left it: reset() is not called.  first keeps what the
\* first run returned and logged.
ExecuteSameNoReset ==
    /\ first.step = "first"
    /\ Ended
    /\ first' = [step |-> "second", args |-> first.args,
                 answers |-> Answered, outcome |-> Outcome,
                 result |-> Returned,
                 responses |-> state.responses, messages |-> state.messages]
    /\ IF neg.pc # "absent"
       THEN /\ Neg_execute(2, first.args.seller, first.args.buyer,
                           first.args.reserve, first.args.max)
            /\ UNCHANGED <<jury, voting, state>>
       ELSE IF jury.pc # "absent"
       THEN /\ Jury_execute(first.args.n, first.args.options)
            /\ UNCHANGED <<neg, voting, state>>
       ELSE /\ Voting_execute(first.args.agents, first.args.options)
            /\ UNCHANGED <<neg, jury, state>>

ReuseNext ==
    \/ NegExecuteFirst
    \/ NegSellerTurn
    \/ NegBuyerTurn
    \/ JuryExecuteFirst
    \/ JuryInitialVote
    \/ JuryDiscussionRound
    \/ JuryRevote
    \/ VotingExecuteFirst
    \/ VotingCollectVotes
    \/ ExecuteSameNoReset

\* a protocol object of one of the three classes, run and run again
\* without a reset
SpecReuse == InitAny /\ [][ReuseNext]_vars

FailNext ==
    \/ JuryExecuteFirst
    \/ JuryInitialVote
    \/ JuryDiscussionRound
    \/ JuryRevote
    \/ JuryThinkFails
    \/ VotingExecuteFirst
    \/ VotingCollectVotes
    \/ VotingThinkFails

\* a JuryProtocol or a VotingProtocol as constructed
InitBallots == InitJury \/ InitVoting

\* runs of small juries and votes in which a call of agent.think may fail
SpecFail == InitBallots /\ [][FailNext]_vars

\* ------------------------------------------------------------------------
\* The same votes, cast in another order
\* ------------------------------------------------------------------------

\* the votes of the agents in another order of the agents: the lists that
\* hold every choice as often as votes does
Reorderings(votes) ==
    {w \in [1..Len(votes) -> {votes[a] : a \in 1..Len(votes)}] :
        \A a \in 1..Len(votes) :
            Cardinality({b \in 1..Len(votes) : w[b] = votes[a]})
                = Cardinality({b \in 1..Len(votes) : votes[b] = votes[a]})}

\* the numbers of agents whose votes are reordered
ReorderedVoters == {2, 3, 4}

\* what an agent's vote can be, on three options
ReorderedChoices ==
    IF voting.allow_abstention THEN {"A", "B", "C", "ABSTAIN"} ELSE {"A", "B", "C"}

\* _calculate_result called, under a count-based rule, on the votes of the
\* same agents in two orders
VotingReorder ==
    /\ voting.pc = "idle"
    /\ voting.last = "__init__"
    /\ voting.consensus_type # "weighted"
    /\ \E n \in ReorderedVoters :
          \E votes \in [1..n -> ReorderedChoices] :
             \E reordered \in Reorderings(votes) :
                voting' = [voting EXCEPT
                    !.last = "_calculate_result",
                    !.parsed = Some([votes |-> votes, reordered |-> reordered,
                                     result |-> _calculate_result(votes),
                                     result_reordered |-> _calculate_result(reordered)])]
    /\ UNCHANGED <<neg, jury, state, first>>

\* _check_consensus called on the tallies of a ballot of six jurors, cast
\* in two orders
JuryReorder ==
    /\ jury.pc = "idle"
    /\ jury.parsed = None
    /\ \E votes \in [1..6 -> {"Guilty", "Not Guilty"}] :
          \E reordered \in Reorderings(votes) :
             jury' = [jury EXCEPT
                 !.parsed = Some([votes |-> votes, reordered |-> reordered,
                                  tally |-> CounterOf(votes),
                                  tally_reordered |-> CounterOf(reordered),
                                  consensus |-> _check_consensus(CounterOf(votes), 6),
                                  consensus_reordered |->
                                      _check_consensus(CounterOf(reordered), 6)])]
    /\ UNCHANGED <<neg, voting, state, first>>

ReorderNext ==
    \/ VotingReorder
    \/ JuryReorder

\* the tally and the consensus check applied to the same votes in two orders
SpecReorder == InitBallots /\ [][ReorderNext]_vars

AgainNext ==
    \/ NegExecuteFirst
    \/ NegSellerTurn
    \/ NegBuyerTurn
    \/ JuryExecuteFirst
    \/ JuryInitialVote
    \/ JuryDiscussionRound
    \/ JuryRevote
    \/ VotingExecuteFirst
    \/ VotingCollectVotes
    \/ ResetAfterRun
    \/ ExecuteSame

\* a protocol object of one of the three classes, run, reset and run again
SpecAgain == InitAny /\ [][AgainNext]_vars

\* ------------------------------------------------------------------------
\* Claims about NegotiationProtocol (checked under SpecNeg)
\* ------------------------------------------------------------------------

NegReturned == neg.pc = "done"

NegSucceeded == NegReturned /\ neg.result.outcome = "success"

NegTimedOut == NegReturned /\ neg.result.outcome = "timeout"

NegInLoop == neg.pc \in {"seller", "buyer"}

\* the price of the last offer of a role among the first k offers (k >= 2)
PriceAfter(offers, role, k) ==
    offers[CHOOSE i \in 1..k :
              /\ offers[i].role = role
              /\ \A j \in (i + 1)..k : offers[j].role # role].price

\* the convergence test on the positions standing after the k-th offer
TestAfter(offers, k) ==
    Abs(PriceAfter(offers, "seller", k) - PriceAfter(offers, "buyer", k))
        <= convergence_threshold

\* C1: every run that returns success reports a final price with
\* seller_reserve <= final_price <= buyer_max.
C1_FinalPriceWithinLimits ==
    NegSucceeded =>
        /\ neg.seller_reserve <= neg.result.final_price[1]
        /\ neg.result.final_price[1] <= neg.buyer_max

\* C2: every run that returns success has savings = initial_ask - final_price
\* >= 0 and premium = final_price - initial_bid >= 0, whenever
\* seller_reserve <= buyer_max.
C2_SavingsAndPremiumNonNegative ==
    NegSucceeded /\ neg.seller_reserve <= neg.buyer_max =>
        /\ neg.result.savings = Some(neg.result.initial_ask - neg.result.final_price[1])
        /\ neg.result.premium = Some(neg.result.final_price[1] - neg.result.initial_bid)
        /\ neg.result.savings[1] >= 0
        /\ neg.result.premium[1] >= 0

\* C3: with seller_reserve > buyer_max execute returns a result (it raises
\* nothing) with outcome failure, rounds_taken 0, no offers and no final
\* price, having computed no initial or counter offer; such a run never
\* enters the loop.
C3_NoDealFailsAtOnce ==
    /\ NegInLoop => neg.seller_reserve <= neg.buyer_max
    /\ NegReturned /\ neg.seller_reserve > neg.buyer_max =>
          /\ neg.result.outcome = "failure"
          /\ neg.result.rounds_taken = 0
          /\ neg.result.offers = <<>>
          /\ neg.result.final_price = None
          /\ neg.calls = 0

C3_Witness == NegReturned /\ neg.seller_reserve > neg.buyer_max

\* C4: the convergence test |ask - bid| <= convergence_threshold is made
\* after the initial positions and after every counter-offer: a run goes on
\* only while the test has failed after every offer so far; a success is
\* returned at the first offer after which it holds, that offer being the
\* last of the list, with final_price = (ask + bid) / 2 of the positions then
\* standing; a timeout has seen it fail after every offer.
C4_ConvergenceCheckedAfterEveryOffer ==
    /\ NegInLoop =>
          /\ \A k \in 2..Len(neg.offers) : ~TestAfter(neg.offers, k)
          /\ neg.current_ask = PriceAfter(neg.offers, "seller", Len(neg.offers))
          /\ neg.current_bid = PriceAfter(neg.offers, "buyer", Len(neg.offers))
    /\ NegSucceeded =>
          LET offers == neg.result.offers
              n == Len(offers)
          IN  /\ n >= 2
              /\ TestAfter(offers, n)
              /\ \A k \in 2..(n - 1) : ~TestAfter(offers, k)
              /\ 2 * neg.result.final_price[1] =
                     PriceAfter(offers, "seller", n) + PriceAfter(offers, "buyer", n)
    /\ NegTimedOut =>
          \A k \in 2..Len(neg.result.offers) : ~TestAfter(neg.result.offers, k)

\* a deal closed by a seller's counter-offer, the buyer of that round not
\* having moved
C4_Witness ==
    /\ NegSucceeded
    /\ Len(neg.result.offers) = 5
    /\ neg.result.offers[5].role = "seller"

\* C5: a run with seller_reserve <= buyer_max makes at most max_rounds
\* rounds of counter-offers and returns success or timeout (while it has not
\* returned it can go on, and it never is in a round beyond max_rounds); a
\* run in which the test failed after every offer of all max_rounds rounds
\* returns timeout with no final price, savings or premium and with
\* rounds_taken = max_rounds.
C5_EndsWithinMaxRounds ==
    /\ NegInLoop =>
          /\ 1 <= neg.round_num /\ neg.round_num <= neg.max_rounds
          /\ CounterOffers(neg.offers) =
                 2 * (neg.round_num - 1) + (IF neg.pc = "buyer" THEN 1 ELSE 0)
          /\ ENABLED NegNext
    /\ NegReturned /\ neg.seller_reserve <= neg.buyer_max =>
          /\ neg.result.outcome \in {"success", "timeout"}
          /\ CounterOffers(neg.result.offers) <= 2 * neg.max_rounds
          /\ neg.result.rounds_taken <= neg.max_rounds
          /\ ( /\ CounterOffers(neg.result.offers) = 2 * neg.max_rounds
               /\ \A k \in 2..Len(neg.result.offers) : ~TestAfter(neg.result.offers, k) )
             => neg.result.outcome = "timeout"
    /\ NegTimedOut =>
          /\ neg.result.final_price = None
          /\ neg.result.savings = None
          /\ neg.result.premium = None
          /\ neg.result.rounds_taken = neg.max_rounds
          /\ CounterOffers(neg.result.offers) = 2 * neg.max_rounds

\* a timeout after two full rounds
C5_Witness ==
    /\ NegTimedOut
    /\ neg.max_rounds = 2
    /\ Len(neg.result.offers) = 6

\* ------------------------------------------------------------------------
\* Claims about JuryProtocol (checked under SpecJury)
\* ------------------------------------------------------------------------

JuryReturned == jury.pc = "done"

JuryRunning == jury.pc \in {"initial_vote", "discussion", "revote"}

\* the consensus check as the documentation states it: the largest count,
\* divided by the number of jurors, is at least required_consensus
Meets(tally) ==
    /\ tally # <<>>
    /\ \E e \in {tally[i] : i \in 1..Len(tally)} :
          e.count * 100 >= jury.required_consensus * jury.n

\* an option holding the largest count of a tally
HoldsMax(tally, option) ==
    /\ option \in Keys(tally)
    /\ \A o \in Keys(tally) : CountOf(tally, o) <= CountOf(tally, option)

\* a dict of the given counts, whatever the order of its keys
IsTally(tally, guilty, not_guilty) ==
    /\ Keys(tally) = {"Guilty", "Not Guilty"}
    /\ CountOf(tally, "Guilty") = guilty
    /\ CountOf(tally, "Not Guilty") = not_guilty

\* C6: a jury run ends at the first round r in 0..max_rounds whose tally
\* meets the consensus check: it goes on only while no tally so far has met
\* it, and a verdict with consensus_reached has rounds_taken = r, the tally
\* of round r (the first to meet the check) as final_vote_counts and an
\* option holding its largest count as verdict; each juror has then been
\* asked for r arguments and r + 1 votes and no more, and with r = 0
\* key_arguments is empty.
C6_EndsAtFirstConsensus ==
    /\ JuryRunning =>
          \A k \in 1..Len(jury.vote_trajectory) : ~Meets(jury.vote_trajectory[k])
    /\ JuryReturned /\ jury.result.consensus_reached =>
          LET r == jury.result.rounds_taken
              trajectory == jury.result.vote_trajectory
          IN  /\ r \in 0..jury.max_rounds
              /\ Len(trajectory) = r + 1
              /\ Meets(trajectory[r + 1])
              /\ \A k \in 1..r : ~Meets(trajectory[k])
              /\ jury.result.final_vote_counts = trajectory[r + 1]
              /\ HoldsMax(trajectory[r + 1], jury.result.verdict)
              /\ jury.asked.argument = jury.n * r
              /\ jury.asked.vote = jury.n * (r + 1)
              /\ (r = 0 => jury.result.key_arguments = <<>>)
    /\ JuryReturned /\ ~jury.result.consensus_reached =>
          \A k \in 1..Len(jury.result.vote_trajectory) :
              ~Meets(jury.result.vote_trajectory[k])

\* consensus in round 1 of a run that could have gone on to round 2
C6_Witness ==
    /\ JuryReturned
    /\ jury.result.consensus_reached
    /\ jury.result.rounds_taken = 1
    /\ jury.max_rounds = 2

\* C7 (states): while round r is under way the trajectory holds the tallies
\* of rounds 0..r-1; every verdict returned has len(vote_trajectory) =
\* rounds_taken + 1 and its last entry equal to final_vote_counts.
C7_TrajectoryLength ==
    /\ jury.pc = "initial_vote" => jury.vote_trajectory = <<>>
    /\ jury.pc \in {"discussion", "revote"} =>
          Len(jury.vote_trajectory) = jury.round_num
    /\ JuryReturned =>
          /\ jury.result.vote_trajectory = jury.vote_trajectory
          /\ Len(jury.result.vote_trajectory) = jury.result.rounds_taken + 1
          /\ jury.result.vote_trajectory[Len(jury.result.vote_trajectory)]
                 = jury.result.final_vote_counts

\* C7 (steps): the trajectory only grows, by one entry at a time: the tally
\* of a ballot, appended when the last juror of that ballot has voted.
C7_TrajectoryStep ==
    \/ jury'.vote_trajectory = jury.vote_trajectory
    \/ /\ jury.pc \in {"initial_vote", "revote"}
       /\ jury.i + 1 = jury.n
       /\ \E vote \in JuryVotes(jury.options) :
             jury'.vote_trajectory =
                 Append(jury.vote_trajectory, CounterAdd(jury.votes, vote))
       /\ SumCounts(jury'.vote_trajectory[Len(jury'.vote_trajectory)]) = jury.n

\* C7: for every JuryVerdict returned, len(vote_trajectory) = rounds_taken + 1
\* and vote_trajectory[k] is the tally computed at round k, entry 0 being the
\* initial ballot and the last entry being final_vote_counts.
C7_TrajectoryRecordsEveryRound ==
    []C7_TrajectoryLength /\ [][C7_TrajectoryStep]_vars

\* a hung jury after two rounds
C7_Witness ==
    /\ JuryReturned
    /\ ~jury.result.consensus_reached
    /\ jury.result.rounds_taken = 2
    /\ Len(jury.result.vote_trajectory) = 3

\* C8: if no tally of the rounds 0..max_rounds meets the consensus check the
\* run returns a verdict (no error) with consensus_reached = false and
\* rounds_taken = max_rounds: "Hung Jury" if hung juries are allowed, else an
\* option holding the largest count of the last round's tally.  A run with
\* an accepted number of jurors never ends in an error.
C8_NoConsensusVerdict ==
    /\ JuryRunning => Len(jury.vote_trajectory) <= jury.max_rounds
    /\ jury.pc = "error" => ~(6 <= jury.n /\ jury.n <= 12)
    /\ ( /\ JuryReturned
         /\ \A k \in 1..Len(jury.vote_trajectory) : ~Meets(jury.vote_trajectory[k]) )
       => /\ jury.result.consensus_reached = FALSE
          /\ jury.result.rounds_taken = jury.max_rounds
          /\ Len(jury.vote_trajectory) = jury.max_rounds + 1
          /\ jury.result.final_vote_counts = jury.vote_trajectory[jury.max_rounds + 1]
          /\ jury.allow_hung_jury => jury.result.verdict = "Hung Jury"
          /\ ~jury.allow_hung_jury =>
                HoldsMax(jury.vote_trajectory[jury.max_rounds + 1], jury.result.verdict)

\* a plurality verdict forced after two rounds without consensus
C8_Witness ==
    /\ JuryReturned
    /\ ~jury.allow_hung_jury
    /\ ~jury.result.consensus_reached
    /\ jury.max_rounds = 2
    /\ jury.result.verdict \in {"Guilty", "Not Guilty"}

\* C9: the consensus check on a tally of n jurors is true exactly when
\* max(counts) / n >= required_consensus, nothing being rounded: the run
\* ends with consensus_reached in the round of a tally exactly when that
\* tally meets it.  With required_consensus = 0.75 and 12 jurors a tally of
\* 9 to 3 ends the run in its round with consensus_reached = true, a tally
\* of 8 to 4 does not, and an empty tally never meets consensus.
C9_ConsensusCheckExact ==
    /\ ~_check_consensus(EmptyCounter, jury.n)
    /\ \A k \in 1..Len(jury.vote_trajectory) :
          LET tally == jury.vote_trajectory[k]
              last == JuryReturned /\ jury.result.consensus_reached
                          /\ k = Len(jury.vote_trajectory)
          IN  /\ _check_consensus(tally, jury.n) <=> Meets(tally)
              /\ Meets(tally) <=> last
              /\ jury.required_consensus = 75 /\ jury.n = 12 =>
                    /\ (IsTally(tally, 9, 3) \/ IsTally(tally, 3, 9)) =>
                           last /\ jury.result.rounds_taken = k - 1
                    /\ (IsTally(tally, 8, 4) \/ IsTally(tally, 4, 8)) => ~last

\* twelve jurors: 8 to 4 in the initial ballot, 9 to 3 in round 1
C9_Witness ==
    /\ JuryReturned
    /\ jury.required_consensus = 75
    /\ jury.n = 12
    /\ Len(jury.vote_trajectory) = 2
    /\ IsTally(jury.vote_trajectory[1], 8, 4)
    /\ IsTally(jury.vote_trajectory[2], 9, 3)
    /\ jury.result.consensus_reached

\* ------------------------------------------------------------------------
\* Claims about VotingProtocol (checked under SpecVoting)
\* ------------------------------------------------------------------------

VotingReturned == voting.pc = "done"

\* the number of the collected votes that are for a choice
VotesFor(choice) == Cardinality({a \in 1..Len(voting.votes) : voting.votes[a] = choice})

\* the choices that received a vote
Chosen == {voting.votes[a] : a \in 1..Len(voting.votes)}

\* the largest number of votes a choice received
TopVotes == CHOOSE m \in {VotesFor(c) : c \in Chosen} : \A c \in Chosen : VotesFor(c) <= m

\* the two highest counts are equal: two choices hold the largest count
TopTwoEqual == Cardinality({c \in Chosen : VotesFor(c) = TopVotes}) >= 2

\* C10: under the simple-majority rule the winner is an option with the
\* largest count, and is_decisive is true exactly when max_count > total / 2
\* and the two highest counts are not equal; the tally {A: 3, B: 2} of 5
\* votes gives winner A, is_decisive = true and tied = false.
C10_SimpleMajority ==
    VotingReturned /\ voting.consensus_type = "simple_majority" =>
        /\ voting.result.consensus_type = "simple_majority"
        /\ voting.result.total_votes = voting.n
        /\ voting.result.winner \in Chosen
        /\ VotesFor(voting.result.winner) = TopVotes
        /\ voting.result.is_decisive <=>
               (2 * TopVotes > voting.result.total_votes /\ ~TopTwoEqual)
        /\ ( Chosen = {"A", "B"} /\ VotesFor("A") = 3 /\ VotesFor("B") = 2 ) =>
               /\ voting.result.winner = "A"
               /\ voting.result.is_decisive
               /\ ~voting.result.tied

\* three votes for A and two for B under simple majority
C10_Witness ==
    /\ VotingReturned
    /\ voting.consensus_type = "simple_majority"
    /\ Chosen = {"A", "B"}
    /\ VotesFor("A") = 3
    /\ VotesFor("B") = 2

\* the rule the result was computed under
Rule == voting.result.consensus_type

\* the leader's share of the votes, max_count / total
TopShare == Frac(TopVotes, Len(voting.votes))

\* C11 as stated: under the simple-majority rule confidence = max_count /
\* total when the result is decisive and 0.5 whenever it is not decisive,
\* tied or not.
C11_HalfUnlessDecisive ==
    VotingReturned /\ Rule = "simple_majority" =>
        IF voting.result.is_decisive
        THEN FracEq(voting.result.confidence, TopShare)
        ELSE FracEq(voting.result.confidence, Frac(1, 2))

\* C11, amended: under the simple-majority rule confidence = max_count /
\* total whenever the two highest counts are not equal, decisive or not, and
\* 0.5 whenever they are equal; in particular it is max_count / total when
\* the result is decisive.
C11_ShareUnlessTied ==
    VotingReturned /\ Rule = "simple_majority" =>
        /\ ~TopTwoEqual => FracEq(voting.result.confidence, TopShare)
        /\ TopTwoEqual => FracEq(voting.result.confidence, Frac(1, 2))
        /\ voting.result.is_decisive => FracEq(voting.result.confidence, TopShare)

\* a leader without a majority and without a rival: its share is not 0.5
C11_Witness ==
    /\ VotingReturned
    /\ Rule = "simple_majority"
    /\ ~voting.result.is_decisive
    /\ ~TopTwoEqual
    /\ ~FracEq(TopShare, Frac(1, 2))

\* C12: under simple majority and plurality tied is true exactly when the
\* two highest counts are equal, whatever their share, and then is_decisive
\* is false while a winner holding the largest count is still reported;
\* under supermajority, unanimous and weighted tied is false; so tied
\* implies not is_decisive in every result.
C12_TiedExactlyWhenTopTwoEqual ==
    VotingReturned =>
        /\ Rule \in {"simple_majority", "plurality"} =>
              /\ voting.result.tied <=> TopTwoEqual
              /\ voting.result.tied =>
                    /\ ~voting.result.is_decisive
                    /\ voting.result.winner \in Chosen
                    /\ VotesFor(voting.result.winner) = TopVotes
        /\ Rule \in {"supermajority", "unanimous", "weighted"} => ~voting.result.tied
        /\ voting.result.tied => ~voting.result.is_decisive

\* two leaders with two votes each and a third choice with one
C12_Witness ==
    /\ VotingReturned
    /\ Rule = "plurality"
    /\ Cardinality(Chosen) = 3
    /\ TopTwoEqual
    /\ TopVotes = 2
    /\ voting.result.tied

\* the votes are a for A and b for B and nothing else
TallyAB(a, b) == Chosen = {"A", "B"} /\ VotesFor("A") = a /\ VotesFor("B") = b

\* C13: under the supermajority rule is_decisive is true exactly when
\* 3 * max_count >= 2 * total, the boundary included ({A: 2, B: 1} of 3 and
\* {A: 4, B: 2} of 6 are decisive, {A: 3, B: 2} of 5 is not), and confidence
\* = max_count / total whether or not the result is decisive.
C13_Supermajority ==
    VotingReturned /\ Rule = "supermajority" =>
        /\ voting.result.is_decisive <=> 3 * TopVotes >= 2 * Len(voting.votes)
        /\ FracEq(voting.result.confidence, TopShare)
        /\ TallyAB(2, 1) => voting.result.is_decisive
        /\ TallyAB(4, 2) => voting.result.is_decisive
        /\ TallyAB(3, 2) => ~voting.result.is_decisive

\* exactly two thirds: two votes for A and one for B
C13_Witness ==
    /\ VotingReturned
    /\ Rule = "supermajority"
    /\ TallyAB(2, 1)
    /\ voting.result.is_decisive

\* C14: under the unanimous rule is_decisive is true exactly when one
\* choice received every vote, and confidence = 1.0 if and only if the
\* result is decisive, being max_count / total, below 1, otherwise.
C14_Unanimous ==
    VotingReturned /\ Rule = "unanimous" =>
        /\ voting.result.is_decisive <=> TopVotes = Len(voting.votes)
        /\ voting.result.is_decisive <=> Cardinality(Chosen) = 1
        /\ voting.result.is_decisive <=> FracEq(voting.result.confidence, Frac(1, 1))
        /\ ~voting.result.is_decisive =>
              /\ FracEq(voting.result.confidence, TopShare)
              /\ voting.result.confidence.num < voting.result.confidence.den

\* all but one of the agents agree
C14_Witness ==
    /\ VotingReturned
    /\ Rule = "unanimous"
    /\ Len(voting.votes) >= 3
    /\ TopVotes = Len(voting.votes) - 1
    /\ ~voting.result.is_decisive

\* C15: under the plurality rule the winner holds the largest count and
\* is_decisive is true exactly when no other choice holds it too; a leader
\* with fewer than half of the votes is still decisive.
C15_Plurality ==
    VotingReturned /\ Rule = "plurality" =>
        /\ voting.result.winner \in Chosen
        /\ VotesFor(voting.result.winner) = TopVotes
        /\ voting.result.is_decisive <=> ~TopTwoEqual
        /\ voting.result.is_decisive <=>
              \A c \in Chosen \ {voting.result.winner} : VotesFor(c) < TopVotes

\* a leader with fewer than half of the votes, and no rival
C15_Witness ==
    /\ VotingReturned
    /\ Rule = "plurality"
    /\ 2 * TopVotes < Len(voting.votes)
    /\ ~TopTwoEqual
    /\ voting.result.is_decisive

\* the sum of the conscientiousness of a set of agents, in hundredths
RECURSIVE WeightOver(_)
WeightOver(S) ==
    IF S = {} THEN 0
    ELSE LET a == CHOOSE x \in S : TRUE
         IN  voting.agents[a] + WeightOver(S \ {a})

\* the weight of the agents that voted for a choice
WeightFor(choice) == WeightOver({a \in 1..Len(voting.votes) : voting.votes[a] = choice})

\* C16: under the weighted rule a vote counts with the conscientiousness of
\* the agent that cast it; the winner is a choice with the highest weight
\* sum, the result has is_decisive = true and tied = false, also when two
\* choices have equal weight sums, and confidence = the winner's weight sum
\* divided by the total weight of all votes.
C16_Weighted ==
    VotingReturned /\ Rule = "weighted" =>
        /\ voting.result.winner \in Chosen
        /\ \A c \in Chosen : WeightFor(c) <= WeightFor(voting.result.winner)
        /\ voting.result.is_decisive
        /\ ~voting.result.tied
        /\ FracEq(voting.result.confidence,
                  Frac(WeightFor(voting.result.winner),
                       WeightOver(1..Len(voting.votes))))

\* one vote of weight 0.75 wins against three votes of weight 0.25 each
C16_Witness ==
    /\ VotingReturned
    /\ Rule = "weighted"
    /\ voting.agents[1] = 75
    /\ VotesFor(voting.result.winner) = 1
    /\ \E c \in Chosen \ {voting.result.winner} :
          /\ VotesFor(c) = 3
          /\ WeightFor(c) = WeightFor(voting.result.winner)

\* the logged responses in which a tier of _parse_vote found a vote / none did
ParseableResponses ==
    {a \in 1..Len(state.responses) : state.responses[a].response = "parseable"}

UnparseableResponses ==
    {a \in 1..Len(state.responses) : state.responses[a].response = "unparseable"}

\* C17 as stated: in every Voting Result the tally counts sum to the number
\* of participants who cast a parseable vote, and with abstention enabled an
\* abstention is kept apart from the option tally.
C17_TallyCountsParseableVotes ==
    VotingReturned =>
        /\ SumCounts(voting.result.vote_counts) = Cardinality(ParseableResponses)
        /\ voting.allow_abstention => "ABSTAIN" \notin Keys(voting.result.vote_counts)

\* C17, amended: under a count-based rule the tally counts sum to
\* total_votes, the number of participants consulted, whether their
\* responses were parseable or not: the tally holds every choice with the
\* number of votes for it, an abstention under the key ABSTAIN of the same
\* tally and, with abstention disabled, an unparseable response as a vote for
\* the first listed option.  Under the weighted rule each entry of the tally
\* is the weight sum of the choice times 10, rounded down.
C17_TallyCountsEveryResponse ==
    VotingReturned =>
        /\ Keys(voting.result.vote_counts) = Chosen
        /\ voting.result.total_votes = voting.n
        /\ Len(state.responses) = voting.n
        /\ Rule # "weighted" =>
              /\ SumCounts(voting.result.vote_counts) = voting.result.total_votes
              /\ \A c \in Chosen : CountOf(voting.result.vote_counts, c) = VotesFor(c)
              /\ voting.allow_abstention =>
                    CountOf(voting.result.vote_counts, "ABSTAIN")
                        = Cardinality(UnparseableResponses)
              /\ ~voting.allow_abstention =>
                    SumCounts(voting.result.vote_counts)
                        = Cardinality(ParseableResponses) + Cardinality(UnparseableResponses)
        /\ Rule = "weighted" =>
              \A c \in Chosen :
                  CountOf(voting.result.vote_counts, c) = (WeightFor(c) * 10) \div 100

\* an abstention in the tally, beside votes for the options
C17_Witness ==
    /\ VotingReturned
    /\ Rule = "simple_majority"
    /\ voting.allow_abstention
    /\ CountOf(voting.result.vote_counts, "ABSTAIN") = 2
    /\ Cardinality(ParseableResponses) = 3

\* C18: every vote recorded by the voting protocol is one of the listed
\* options, or ABSTAIN when and only when abstention is enabled: a response
\* in which no tier finds a vote is recorded as ABSTAIN if abstention is
\* enabled and as a vote for the first listed option otherwise.
C18_RecordedVotes ==
    /\ Len(state.responses) = Len(voting.votes)
    /\ \A a \in 1..Len(state.responses) :
          LET e == state.responses[a]
          IN  /\ e.vote = voting.votes[a]
              /\ e.agent_id = a
              /\ e.vote \in {voting.options[j] : j \in 1..Len(voting.options)}
                               \cup {"ABSTAIN"}
              /\ e.vote = "ABSTAIN" <=>
                     (voting.allow_abstention /\ e.response = "unparseable")
              /\ (e.response = "unparseable" /\ ~voting.allow_abstention) =>
                     e.vote = voting.options[1]

\* an unparseable response recorded as a vote for the first option, after a
\* parseable vote for another
C18_Witness ==
    /\ ~voting.allow_abstention
    /\ Len(state.responses) >= 2
    /\ state.responses[1].response = "parseable"
    /\ state.responses[1].vote = "B"
    /\ state.responses[2].response = "unparseable"
    /\ state.responses[2].vote = "A"

\* ------------------------------------------------------------------------
\* Claims about execute's checks (under SpecExecute) and about the protocol
\* state (under SpecState)
\* ------------------------------------------------------------------------

\* a call of execute has raised
Raised == neg.pc = "error" \/ jury.pc = "error" \/ voting.pc = "error"

\* execute raises exactly when the list of agents is not accepted (or, for
\* voting, there are no options), and then nobody was consulted and the
\* state is as constructed
C19_RejectedExactly ==
    /\ neg.pc \notin {"absent", "idle"} =>
          /\ neg.pc = "error" <=> neg.n # 2
          /\ neg.pc = "error" => neg.result = NoResult
    /\ jury.pc \notin {"absent", "idle"} =>
          /\ jury.pc = "error" <=> (jury.n < 6 \/ jury.n > 12)
          /\ jury.pc = "error" =>
                jury.asked = [vote |-> 0, argument |-> 0] /\ jury.result = NoVerdict
    /\ voting.pc \notin {"absent", "idle"} =>
          /\ voting.pc = "error" <=> (voting.n < 2 \/ voting.options = <<>>)
          /\ voting.pc = "error" =>
                /\ voting.error = "ValueError"
                /\ voting.votes = <<>>
                /\ voting.result = NoVotingResult
    /\ Raised =>
          /\ state.messages = <<>>
          /\ state.responses = <<>>
          /\ ~state.is_complete
          /\ state.result = None

\* a call that raises leaves the state as it was, and nothing follows it
C19_RejectedStep ==
    /\ ~Raised
    /\ Raised' => state' = state

C20_ResetRestoresFreshState ==
    voting.last = "reset" =>
        /\ state = ProtocolState
        /\ state.round_number = 0
        /\ state.messages = <<>>
        /\ state.responses = <<>>
        /\ ~state.is_complete
        /\ state.result = None

\* reset() called after a run of execute has returned its result
C20_Witness ==
    /\ voting.last = "reset"
    /\ voting.pc = "done"
    /\ state = ProtocolState

\* ------------------------------------------------------------------------
\* Claims about the logs of the protocol state (checked under SpecState)
\* ------------------------------------------------------------------------

\* the sequence a is the beginning of the sequence b
IsPrefix(a, b) ==
    /\ Len(a) <= Len(b)
    /\ \A i \in 1..Len(a) : b[i] = a[i]

\* the step is a call of reset()
ResetStep == voting'.last = "reset" /\ voting.pc = voting'.pc

\* a call of log_message: the message log grows by the logged entry, at the
\* end, and the response log is as it was
C21_LogMessageStep ==
    voting'.last = "log_message" =>
        /\ Len(state'.messages) = Len(state.messages) + 1
        /\ IsPrefix(state.messages, state'.messages)
        /\ state'.messages[Len(state'.messages)].sender_id = 1
        /\ state'.messages[Len(state'.messages)].content = "content"
        /\ state'.responses = state.responses

\* a call of log_response: the response log grows by the logged entry, at
\* the end, and the message log is as it was
C21_LogResponseStep ==
    voting'.last = "log_response" =>
        /\ Len(state'.responses) = Len(state.responses) + 1
        /\ IsPrefix(state.responses, state'.responses)
        /\ state'.responses[Len(state'.responses)].agent_id = 1
        /\ state'.responses[Len(state'.responses)].response = "response"
        /\ state'.messages = state.messages

\* any call but reset(): every entry of both logs stays where it was
C21_OtherStep ==
    ~ResetStep =>
        /\ IsPrefix(state.messages, state'.messages)
        /\ IsPrefix(state.responses, state'.responses)

\* C21: log_message and log_response only append: each log holds the logged
\* entries in call order, no operation other than reset() removes, reorders
\* or alters an entry, log_message leaves the response log unchanged and
\* log_response leaves the message log unchanged.
C21_LogsAppendOnly ==
    [][C21_LogMessageStep /\ C21_LogResponseStep /\ C21_OtherStep]_vars

\* two different messages and two different responses were logged and are
\* held in call order
C21_Witness ==
    /\ Len(state.messages) = 2
    /\ state.messages[1].message_type = "statement"
    /\ state.messages[2].message_type = "vote"
    /\ Len(state.responses) = 2
    /\ state.responses[1].vote = "B"
    /\ state.responses[2].vote = "A"
    /\ voting.last = "log_response"

\* ------------------------------------------------------------------------
\* Claims about a protocol object run twice (checked under SpecAgain)
\* ------------------------------------------------------------------------

\* C22: after reset(), execute called again with the same inputs and
\* participants that answer as before ends as the first run did: the same
\* rounds_taken and the same kind of terminal outcome, for a vote, a jury
\* and a negotiation.
C22_SecondRunRepeatsFirst ==
    first.step = "second" /\ Ended =>
        /\ Outcome.rounds_taken = first.outcome.rounds_taken
        /\ Outcome.type = first.outcome.type
        /\ Outcome.raised = first.outcome.raised

\* a jury that reached consensus in round 1 does so again
C22_Witness ==
    /\ first.step = "second"
    /\ jury.pc = "done"
    /\ jury.result.rounds_taken = 1
    /\ jury.result.consensus_reached

\* ------------------------------------------------------------------------
\* Claims about failing participants (C23 under SpecFail, C24 under
\* SpecVoting)
\* ------------------------------------------------------------------------

\* agent.think raised in a vote
VotingThinkFailed == voting.pc = "error" /\ voting.error = "RetryError"

\* agent.think raised in a jury
JuryThinkFailed == jury.pc = "error" /\ jury.error = "RetryError"

\* C23: if a participant's reasoning call fails in a phase of a voting or
\* jury run, after the retries of generate, execute returns no result and
\* raises an error that names the failing participant and the phase, and no
\* later participant is consulted.
C23_FailureNamesParticipantAndPhase ==
    /\ VotingThinkFailed =>
          /\ voting.result = NoVotingResult
          /\ state.result = None
          /\ ~state.is_complete
          /\ Len(state.responses) = Len(voting.votes)
          /\ Len(voting.votes) < voting.n
          /\ Names(voting.error).participant = Len(voting.votes) + 1
          /\ Names(voting.error).phase = "collect"
    /\ JuryThinkFailed =>
          /\ jury.result = NoVerdict
          /\ state.result = None
          /\ jury.i < jury.n
          /\ Len(state.responses) + Len(state.messages) =
                2 * jury.n * jury.round_num + jury.i
                  - (IF jury.phase = "discussion" THEN jury.n ELSE 0)
          /\ Names(jury.error).participant = jury.i + 1
          /\ Names(jury.error).phase = jury.phase

\* C24: with an accepted number of agents, options that are not empty and
\* traits anywhere in [0, 1], and participants whose calls all return,
\* execute returns its result and raises nothing: an exception of a voting
\* run is the ValueError of a rejected call or the failure of a participant.
C24_ValidRunsNeverRaise ==
    voting.pc = "error" =>
        \/ /\ voting.error = "ValueError"
           /\ ~Voting_validate_participation(voting.n) \/ voting.options = <<>>
        \/ VotingThinkFailed

\* ------------------------------------------------------------------------
\* Claims about what the runs log (checked under SpecAgain)
\* ------------------------------------------------------------------------

\* execute was the last call from outside: no reset() since
NotReset == first.step # "reset"

\* the votes of a vote are logged one by one as they are collected, each
\* under its agent, in the agents' order
VotesLogged ==
    voting.pc \in {"collect", "done", "error"} =>
        /\ Len(state.responses) = Len(voting.votes)
        /\ \A k \in 1..Len(voting.votes) :
              /\ state.responses[k].agent_id = k
              /\ state.responses[k].vote = voting.votes[k]
        /\ state.messages = <<>>

\* the ballots and the arguments of a jury are logged one by one as they are
\* obtained
BallotsAndArgumentsLogged ==
    jury.pc \in {"initial_vote", "discussion", "revote", "done"} =>
        /\ Len(state.responses) = jury.asked.vote
        /\ Len(state.messages) = jury.asked.argument

ResponsesInListOrder(n) ==
    \A k \in 1..Len(state.responses) :
        state.responses[k].agent_id = ((k - 1) % n) + 1

MessagesInListOrder(n) ==
    \A k \in 1..Len(state.messages) :
        state.messages[k].sender_id = ((k - 1) % n) + 1

\* the ballots and arguments a jury has logged, each phase in the order of
\* the list; a ballot going on follows the arguments of all rounds before
\* it, and a discussion going on follows all ballots before it
JuryPhasesInOrder ==
    jury.n > 0 =>
        LET R == Len(state.responses)
            M == Len(state.messages)
        IN  /\ ResponsesInListOrder(jury.n)
            /\ MessagesInListOrder(jury.n)
            /\ M <= R
            /\ R <= M + jury.n
            /\ R % jury.n # 0 => M = jury.n * (R \div jury.n)
            /\ M % jury.n # 0 => R = jury.n * ((M \div jury.n) + 1)

\* the juror asked next is the one after those logged in the phase
JuryNextInOrder ==
    /\ jury.pc \in {"initial_vote", "revote"} =>
          jury.i = Len(state.responses) % jury.n
    /\ jury.pc = "discussion" =>
          /\ jury.i = Len(state.messages) % jury.n
          /\ Len(state.responses) = jury.n * jury.round_num
          /\ Len(state.messages) \div jury.n = jury.round_num - 1
    /\ jury.pc = "revote" =>
          /\ Len(state.messages) = jury.n * jury.round_num
          /\ Len(state.responses) \div jury.n = jury.round_num

\* C26: within each phase (voting ballot, jury initial ballot, argument
\* round, re-vote) the participants are consulted one at a time in the
\* order of the list and logged in that order; in every jury round all
\* arguments are collected before the first re-vote of the round, and all
\* re-votes before the first argument of the next round.
C26_PhasesInOrder ==
    /\ voting.pc \in {"collect", "done", "error"} =>
          ResponsesInListOrder(voting.n)
    /\ voting.pc = "collect" => Len(state.responses) = Len(voting.votes)
    /\ JuryPhasesInOrder
    /\ JuryNextInOrder

\* the discussion of the second round of a jury of six, three arguments in
C26_Witness ==
    /\ jury.pc = "discussion"
    /\ jury.n = 6
    /\ jury.round_num = 2
    /\ jury.i = 3
    /\ Len(state.responses) = 12
    /\ Len(state.messages) = 9

\* ------------------------------------------------------------------------
\* Claims about the negotiation of the example (checked under SpecScenario)
\* ------------------------------------------------------------------------

\* C27: for seller_reserve = 800, buyer_max = 1500, convergence_threshold = 5
\* and every pair of trait vectors, the initial ask is greater than the
\* initial bid, or else the run returns success at once with 0 rounds taken;
\* and the run ends within max_rounds with success at a price in
\* [800, 1500] or with timeout.
C27_ScenarioAskAboveBid ==
    /\ convergence_threshold = 5 * Scale
    /\ NegInLoop => neg.initial_ask > neg.initial_bid
    /\ NegReturned =>
          /\ \/ neg.result.initial_ask > neg.result.initial_bid
             \/ /\ neg.result.outcome = "success"
                /\ neg.result.rounds_taken = 0
                /\ Len(neg.result.offers) = 2
          /\ neg.result.rounds_taken <= neg.max_rounds
          /\ \/ /\ neg.result.outcome = "success"
                /\ neg.result.final_price[1] >= ScenarioReserve * Scale
                /\ neg.result.final_price[1] <= ScenarioMax * Scale
             \/ neg.result.outcome = "timeout"

\* ------------------------------------------------------------------------
\* Claims about the offers of a negotiation (checked under SpecNeg)
\* ------------------------------------------------------------------------

\* C28: the offer list of a NegotiationResult, when not empty, starts with
\* the seller's initial ask and the buyer's initial bid, both of round 0;
\* the round numbers never decrease along the list; a round holds at most
\* one offer of the seller and one of the buyer, the seller's first; and the
\* roles alternate seller, buyer, seller, buyer.
C28_OffersInOrder ==
    NegReturned /\ neg.result.offers # <<>> =>
        LET offers == neg.result.offers
        IN  /\ Len(offers) >= 2
            /\ offers[1] = Offer(0, "seller", neg.result.initial_ask)
            /\ offers[2] = Offer(0, "buyer", neg.result.initial_bid)
            /\ \A k \in 1..(Len(offers) - 1) : offers[k].round <= offers[k + 1].round
            /\ \A k \in 1..Len(offers) :
                  offers[k].role = IF k % 2 = 1 THEN "seller" ELSE "buyer"
            /\ \A j \in 1..Len(offers), k \in 1..Len(offers) :
                  j < k /\ offers[j].round = offers[k].round =>
                      /\ k = j + 1
                      /\ offers[j].role = "seller"
                      /\ offers[k].role = "buyer"

\* a deal closed by the seller's counter-offer of round 2: five offers
C28_Witness ==
    /\ NegSucceeded
    /\ Len(neg.result.offers) = 5
    /\ neg.result.offers[5] = [round |-> 2, role |-> "seller",
                               price |-> neg.result.offers[5].price]

\* the offers made after the initial positions
LaterOffers == {k \in 1..Len(neg.result.offers) : neg.result.offers[k].round > 0}

\* the offer that closed the deal
ClosingOffer == neg.result.offers[Len(neg.result.offers)]

\* C29: on success rounds_taken is the number of offers of a round above 0,
\* halved and rounded down: 0 for a deal at the initial positions, r for a
\* deal closed by the buyer's counter-offer of round r, r - 1 for a deal
\* closed by the seller's counter-offer of round r; and it lies between 0
\* and max_rounds.
C29_RoundsTakenOnSuccess ==
    NegSucceeded =>
        /\ 2 * neg.result.rounds_taken <= Cardinality(LaterOffers)
        /\ Cardinality(LaterOffers) <= 2 * neg.result.rounds_taken + 1
        /\ Cardinality(LaterOffers) = Len(neg.result.offers) - 2
        /\ LaterOffers = {} => neg.result.rounds_taken = 0
        /\ LaterOffers # {} /\ ClosingOffer.role = "buyer" =>
              neg.result.rounds_taken = ClosingOffer.round
        /\ LaterOffers # {} /\ ClosingOffer.role = "seller" =>
              neg.result.rounds_taken = ClosingOffer.round - 1
        /\ neg.result.rounds_taken >= 0
        /\ neg.result.rounds_taken <= neg.max_rounds

\* a deal closed by the seller's counter-offer of round 2 counts 1 round
C29_Witness ==
    /\ NegSucceeded
    /\ ClosingOffer.role = "seller"
    /\ ClosingOffer.round = 2
    /\ neg.result.rounds_taken = 1

\* ------------------------------------------------------------------------
\* Claims about _parse_vote (checked under SpecParse)
\* ------------------------------------------------------------------------

\* the text and the options of the call of _parse_vote, and its choice
Parsed == voting.parsed[1]

\* the VOTE: lines of the text whose number is the position of an option
InRangeLines ==
    {j \in 1..Len(Parsed.raw_response.vote_lines) :
        /\ vote_num(Parsed.raw_response.vote_lines[j]) >= 1
        /\ vote_num(Parsed.raw_response.vote_lines[j]) <= Len(Parsed.options)}

\* the options whose text the text holds
Mentioned == Parsed.raw_response.mentions \cap (1..Len(Parsed.options))

\* the position numbers among the digits of the first 50 characters
Numbered == Parsed.raw_response.digits \cap (1..Len(Parsed.options))

JuryParsed == jury.parsed[1]

\* the lines of the parsed response that hold "VOTE:"
JuryVoteLines ==
    {i \in 1..Len(JuryParsed.raw_response) : JuryParsed.raw_response[i].vote}

\* the text after "VOTE:" in line i says Guilty / Not Guilty
SaysGuilty(i) == JuryParsed.raw_response[i].after = "guilty"

SaysNotGuilty(i) == JuryParsed.raw_response[i].after = "not guilty"

\* some line of the response holds "not guilty" / "guilty"
NotGuiltyAnywhere ==
    \E i \in 1..Len(JuryParsed.raw_response) :
        \/ HasNotGuilty(JuryParsed.raw_response[i].before)
        \/ HasNotGuilty(JuryParsed.raw_response[i].after)

GuiltyAnywhere ==
    \E i \in 1..Len(JuryParsed.raw_response) :
        \/ HasGuilty(JuryParsed.raw_response[i].before)
        \/ HasGuilty(JuryParsed.raw_response[i].after)

\* the vote the whole response gives when no VOTE: line decides
JuryFallback ==
    IF NotGuiltyAnywhere THEN "Not Guilty"
    ELSE IF GuiltyAnywhere THEN "Guilty"
    ELSE JuryParsed.options[1]

\* C31 as stated: the vote is Guilty, Not Guilty or the first option; a
\* response with a VOTE: line that says not guilty is never recorded as
\* Guilty; any VOTE: line that says guilty (without "not") gives Guilty and
\* any that says not guilty gives Not Guilty; with no such line the whole
\* response decides (not guilty, then guilty, then the first option).
C31_AnyVoteLineDecides ==
    jury.parsed # None =>
        /\ JuryParsed.vote \in {"Guilty", "Not Guilty", JuryParsed.options[1]}
        /\ \A i \in JuryVoteLines :
              /\ SaysNotGuilty(i) => JuryParsed.vote # "Guilty"
              /\ SaysGuilty(i) => JuryParsed.vote = "Guilty"
              /\ SaysNotGuilty(i) => JuryParsed.vote = "Not Guilty"
        /\ (\A i \in JuryVoteLines : ~SaysGuilty(i) /\ ~SaysNotGuilty(i))
              => JuryParsed.vote = JuryFallback

\* C31, amended: the vote is Guilty, Not Guilty or the first option; the
\* first line holding "VOTE:" is the one that is read, after its colon: if
\* it says guilty without "not" the vote is Guilty, if it says not guilty
\* the vote is Not Guilty, whatever the other lines say; otherwise the whole
\* response decides (not guilty, then guilty, then the first option).
C31_FirstVoteLineDecides ==
    jury.parsed # None =>
        LET first_line == CHOOSE i \in JuryVoteLines :
                              \A j \in JuryVoteLines : i <= j
        IN  /\ JuryParsed.vote \in {"Guilty", "Not Guilty", JuryParsed.options[1]}
            /\ JuryVoteLines # {} /\ SaysGuilty(first_line)
                  => JuryParsed.vote = "Guilty"
            /\ JuryVoteLines # {} /\ SaysNotGuilty(first_line)
                  => JuryParsed.vote = "Not Guilty"
            /\ (JuryVoteLines = {}
                  \/ (~SaysGuilty(first_line) /\ ~SaysNotGuilty(first_line)))
                  => JuryParsed.vote = JuryFallback

\* a first VOTE: line that says not guilty decides against a second one
\* that says guilty
C31_Witness ==
    /\ jury.parsed # None
    /\ JuryParsed.options = <<"Guilty", "Not Guilty">>
    /\ JuryParsed.raw_response =
          <<[vote |-> TRUE, before |-> "none", after |-> "not guilty"],
            [vote |-> TRUE, before |-> "guilty", after |-> "guilty"]>>
    /\ JuryParsed.vote = "Not Guilty"

\* ------------------------------------------------------------------------
\* C32, C33: the counter-offers
\* ------------------------------------------------------------------------

\* the offers made so far in the running or returned negotiation
NegOffers ==
    IF NegInLoop THEN neg.offers
    ELSE IF NegReturned THEN neg.result.offers
    ELSE <<>>

\* the places of a role's offers in the list
OffersOf(role) == {k \in 1..Len(NegOffers) : NegOffers[k].role = role}

\* C32: every counter-offer (an offer of a round above 0) of the seller is
\* at or above seller_reserve and every counter-offer of the buyer is at or
\* below buyer_max, at every point of every run.
C32_CounterOffersWithinLimits ==
    \A k \in 1..Len(NegOffers) :
        NegOffers[k].round > 0 =>
            /\ NegOffers[k].role = "seller" => NegOffers[k].price >= neg.seller_reserve
            /\ NegOffers[k].role = "buyer" => NegOffers[k].price <= neg.buyer_max

\* the seller's ask stood at the reserve and its next counter-offer, the
\* minimum movement clamped back, is the reserve again
C32_Witness ==
    \E j \in OffersOf("seller"), k \in OffersOf("seller") :
        /\ NegOffers[j].round >= 1
        /\ NegOffers[k].round = NegOffers[j].round + 1
        /\ NegOffers[j].price = neg.seller_reserve
        /\ NegOffers[k].price = neg.seller_reserve

\* the next offer of the same role after the k-th offer, or 0
NextOfRole(k) ==
    IF k + 2 <= Len(NegOffers) THEN k + 2 ELSE 0

\* C33: each counter-offer of the seller is below its previous ask by at
\* least min_price_movement, or equals seller_reserve when that would go
\* below the reserve; each counter-offer of the buyer is above its previous
\* bid by at least min_price_movement, or equals buyer_max when that would
\* exceed it; so the ask never moves up and the bid never moves down.
C33_ConcessionsOnly ==
    \A k \in 1..Len(NegOffers) :
        NextOfRole(k) # 0 =>
            LET old == NegOffers[k].price
                new == NegOffers[NextOfRole(k)].price
            IN  IF NegOffers[k].role = "seller"
                THEN /\ new <= old
                     /\ IF old - min_price_movement < neg.seller_reserve
                        THEN new = neg.seller_reserve
                        ELSE new <= old - min_price_movement
                ELSE /\ new >= old
                     /\ IF old + min_price_movement > neg.buyer_max
                        THEN new = neg.buyer_max
                        ELSE new >= old + min_price_movement

\* C33 in the runs whose initial ask is not below the initial bid
C33_ConcessionsUnlessCrossed ==
    Len(NegOffers) >= 2 /\ NegOffers[1].price >= NegOffers[2].price
        => C33_ConcessionsOnly

\* ------------------------------------------------------------------------
\* C34: the initial positions
\* ------------------------------------------------------------------------

\* the markup of a seller, in tenths: 1.8 for openness above 0.7, else 1.2
\* for neuroticism above 0.7, else 1.5
Markup(seller) ==
    IF seller.openness > 70 THEN 18
    ELSE IF seller.neuroticism > 70 THEN 12
    ELSE 15

\* the bid factor of a buyer, in hundredths: 0.75 for agreeableness above
\* 0.7, else 0.65 for conscientiousness above 0.7, else 0.6
BidFactor(buyer) ==
    IF buyer.agreeableness > 70 THEN 75
    ELSE IF buyer.conscientiousness > 70 THEN 65
    ELSE 60

\* C34: the two offers of round 0 are the seller's ask seller_reserve *
\* markup and the buyer's bid buyer_max * factor, markup and factor chosen
\* by the traits as above (strictly above 0.7; the first test wins).
C34_InitialPositions ==
    first.step = "first" /\ NegOffers # <<>> =>
        /\ NegOffers[1] = Offer(0, "seller",
               (first.args.reserve * Markup(first.args.seller)) \div 10)
        /\ NegOffers[2] = Offer(0, "buyer",
               (first.args.max * BidFactor(first.args.buyer)) \div 100)
        /\ first.args.seller.openness = 70 /\ first.args.seller.neuroticism = 70
              => NegOffers[1].price * 10 = first.args.reserve * 15
        /\ first.args.buyer.agreeableness = 70 /\ first.args.buyer.conscientiousness = 70
              => NegOffers[2].price * 100 = first.args.max * 60

\* both tests of each side hold, and the first decides: ask 1.8 * reserve
\* and bid 0.75 * max
C34_Witness ==
    /\ first.step = "first"
    /\ NegOffers # <<>>
    /\ first.args.seller.openness = 80 /\ first.args.seller.neuroticism = 80
    /\ first.args.buyer.agreeableness = 80 /\ first.args.buyer.conscientiousness = 80
    /\ NegOffers[1].price * 10 = first.args.reserve * 18
    /\ NegOffers[2].price * 100 = first.args.max * 75

\* ------------------------------------------------------------------------
\* C35: a jury run ends, and what it has asked and logged
\* ------------------------------------------------------------------------

\* the responses / messages the log holds of juror a
ResponsesOf(a) ==
    Cardinality({k \in 1..Len(state.responses) : state.responses[k].agent_id = a})

MessagesOf(a) ==
    Cardinality({k \in 1..Len(state.messages) : state.messages[k].sender_id = a})

\* what a returned run has asked and logged
JuryCountsAtReturn ==
    JuryReturned =>
        LET rounds_taken == jury.result.rounds_taken
        IN  /\ rounds_taken <= jury.max_rounds
            /\ jury.asked.vote = jury.n * (rounds_taken + 1)
            /\ jury.asked.argument = jury.n * rounds_taken
            /\ Len(state.responses) = jury.n * (rounds_taken + 1)
            /\ Len(state.messages) = jury.n * rounds_taken
            /\ \A a \in 1..jury.n :
                  /\ ResponsesOf(a) = rounds_taken + 1
                  /\ MessagesOf(a) = rounds_taken
            /\ \A k \in 1..Len(state.messages) :
                  state.messages[k].message_type = "argument"

\* C35: a jury run in which every juror answers returns a JuryVerdict; at
\* return rounds_taken <= max_rounds, every juror was asked for rounds_taken
\* arguments and rounds_taken + 1 votes, and the logs of the (fresh) state
\* hold n * (rounds_taken + 1) responses and n * rounds_taken messages, all
\* of type argument.
C35_JuryRunsEnd ==
    /\ [](JuryCountsAtReturn)
    /\ JuryRunning ~> JuryReturned

\* a run of seven jurors returned after two rounds: 21 responses, 14
\* arguments
C35_Witness ==
    /\ JuryReturned
    /\ jury.n = 7
    /\ jury.result.rounds_taken = 2
    /\ Len(state.responses) = 21
    /\ Len(state.messages) = 14

\* ------------------------------------------------------------------------
\* C36: every ballot of a jury counts every juror once
\* ------------------------------------------------------------------------

\* C36: while a ballot is going on its tally sums to the number of jurors
\* asked so far; every tally of vote_trajectory sums to the number of
\* jurors, and so does final_vote_counts of the verdict; every vote counted
\* is one the parser can give (Guilty, Not Guilty or the first option).
C36_TalliesSumToJurors ==
    /\ jury.pc \in {"initial_vote", "revote"} => SumCounts(jury.votes) = jury.i
    /\ JuryRunning \/ JuryReturned =>
          \A k \in 1..Len(jury.vote_trajectory) :
              /\ SumCounts(jury.vote_trajectory[k]) = jury.n
              /\ Keys(jury.vote_trajectory[k])
                    \subseteq {"Guilty", "Not Guilty", jury.options[1]}
    /\ JuryReturned =>
          /\ SumCounts(jury.result.final_vote_counts) = jury.n
          /\ jury.result.vote_trajectory = jury.vote_trajectory

\* a verdict of twelve jurors after two rounds, the three tallies all
\* different
C36_Witness ==
    /\ JuryReturned
    /\ jury.n = 12
    /\ Len(jury.result.vote_trajectory) = 3
    /\ jury.result.vote_trajectory[1] # jury.result.vote_trajectory[2]
    /\ jury.result.vote_trajectory[2] # jury.result.vote_trajectory[3]
    /\ jury.result.vote_trajectory[1] # jury.result.vote_trajectory[3]
    /\ SumCounts(jury.result.final_vote_counts) = 12

\* ------------------------------------------------------------------------
\* C37: the breakdown of a Voting Result
\* ------------------------------------------------------------------------

\* the entries of the breakdown that list agent a
ListedUnder(a) ==
    {j \in 1..Len(voting.result.breakdown) : a \in voting.result.breakdown[j].agents}

\* C37: in a Voting Result of a count-based rule total_votes is the number
\* of participants; every participant is listed in the breakdown once, under
\* the choice logged as its vote; and each option's list is as long as its
\* count in the tally, the tally and the breakdown holding the same options.
C37_BreakdownMatchesTally ==
    VotingReturned /\ Rule # "weighted" =>
        /\ voting.result.total_votes = voting.n
        /\ \A a \in 1..voting.n :
              /\ Cardinality(ListedUnder(a)) = 1
              /\ \A j \in ListedUnder(a) :
                    voting.result.breakdown[j].option = state.responses[a].vote
        /\ {voting.result.breakdown[j].option : j \in 1..Len(voting.result.breakdown)}
              = Keys(voting.result.vote_counts)
        /\ \A j \in 1..Len(voting.result.breakdown) :
              /\ voting.result.breakdown[j].agents \subseteq 1..voting.n
              /\ Cardinality(voting.result.breakdown[j].agents)
                    = CountOf(voting.result.vote_counts,
                              voting.result.breakdown[j].option)
              /\ \A k \in 1..Len(voting.result.breakdown) :
                    voting.result.breakdown[j].option = voting.result.breakdown[k].option
                        => j = k

\* five agents, three choices: two lists of two agents and one of one
C37_Witness ==
    /\ VotingReturned
    /\ Rule = "plurality"
    /\ voting.n = 5
    /\ Len(voting.result.breakdown) = 3
    /\ Cardinality(voting.result.breakdown[1].agents) = 2
    /\ Cardinality(voting.result.breakdown[2].agents) = 2
    /\ Cardinality(voting.result.breakdown[3].agents) = 1

\* ------------------------------------------------------------------------
\* C38: what execute writes to the fields of Protocol State
\* ------------------------------------------------------------------------

\* C38: when VotingProtocol.execute has returned (and until reset() is
\* called) the state's is_complete is true and its result is the returned
\* Voting Result; a jury and a negotiation leave is_complete false and the
\* result None at every point, their completed runs included; and
\* round_number is 0 at every point of every protocol's runs.
C38_OnlyVotingCompletesState ==
    /\ state.round_number = 0
    /\ VotingReturned /\ first.step # "reset" =>
          /\ state.is_complete
          /\ state.result = Some(voting.result)
    /\ voting.pc \in {"idle", "collect", "error"} =>
          /\ ~state.is_complete
          /\ state.result = None
    /\ jury.pc # "absent" \/ neg.pc # "absent" =>
          /\ ~state.is_complete
          /\ state.result = None

\* a jury has returned its verdict after a round: the logs are filled, the
\* state is not complete and holds no result
C38_Witness ==
    /\ JuryReturned
    /\ jury.result.rounds_taken = 1
    /\ Len(state.responses) = 12
    /\ Len(state.messages) = 6
    /\ ~state.is_complete
    /\ state.result = None
    /\ state.round_number = 0

\* ------------------------------------------------------------------------
\* C39: execute on a protocol that was not reset
\* ------------------------------------------------------------------------

\* C39: execute called on a protocol that was not reset after an earlier
\* run, with participants that answer as on the fresh protocol, returns the
\* result the fresh run returned (and raises when it raised); the logs keep
\* the earlier run's entries at their head throughout, and at the end hold
\* them followed by the entries of the new run, which are those the fresh
\* run logged.
C39_ResultIndependentOfState ==
    first.step = "second" =>
        /\ IsPrefix(first.responses, state.responses)
        /\ IsPrefix(first.messages, state.messages)
        /\ Ended =>
              /\ Returned = first.result
              /\ Outcome = first.outcome
              /\ state.responses = first.responses \o first.responses
              /\ state.messages = first.messages \o first.messages

\* a jury run again without reset returns the verdict of round 1 again, the
\* logs holding both runs
C39_Witness ==
    /\ first.step = "second"
    /\ JuryReturned
    /\ jury.result.rounds_taken = 1
    /\ jury.result = first.result
    /\ Len(state.responses) = 24
    /\ Len(state.messages) = 12

\* ------------------------------------------------------------------------
\* C40: the order of the votes
\* ------------------------------------------------------------------------

\* two tallies are the same dict: the same keys with the same counts
SameTally(c, d) ==
    /\ Keys(c) = Keys(d)
    /\ \A v \in Keys(c) : CountOf(c, v) = CountOf(d, v)

\* the call of _calculate_result on two orders of the votes was made
VotesReordered == voting.parsed # None /\ voting.last = "_calculate_result"

\* C40: under the count-based rules the result of the votes in one order
\* and in another has the same tally, total_votes, is_decisive, tied and
\* confidence, and the same winner when it is decisive; and the consensus
\* check of a jury gives the same on the tallies of a ballot cast in two
\* orders, the tallies being the same.
C40_OrderOfVotesIsImmaterial ==
    /\ VotesReordered =>
          LET r == voting.parsed[1].result
              q == voting.parsed[1].result_reordered
          IN  /\ SameTally(r.vote_counts, q.vote_counts)
              /\ r.total_votes = q.total_votes
              /\ r.is_decisive = q.is_decisive
              /\ r.tied = q.tied
              /\ FracEq(r.confidence, q.confidence)
              /\ r.is_decisive => r.winner = q.winner
    /\ jury.parsed # None =>
          /\ SameTally(jury.parsed[1].tally, jury.parsed[1].tally_reordered)
          /\ jury.parsed[1].consensus = jury.parsed[1].consensus_reordered

\* a tied plurality vote whose reported winner changes with the order of
\* the votes, the tallies holding their keys in different orders
C40_Witness ==
    /\ VotesReordered
    /\ voting.consensus_type = "plurality"
    /\ voting.parsed[1].votes = <<"A", "B", "B", "A">>
    /\ voting.parsed[1].reordered = <<"B", "A", "A", "B">>
    /\ voting.parsed[1].result.tied
    /\ voting.parsed[1].result.winner = "A"
    /\ voting.parsed[1].result_reordered.winner = "B"
    /\ voting.parsed[1].result.vote_counts # voting.parsed[1].result_reordered.vote_counts

====
